---- MODULE Spec2Model ----
(***************************************************************************)
(* Token Light Condition: the light level resolver (LightingCalculator),   *)
(* the update scheduler (hooks, debounce timers, circuit breaker) and the  *)
(* effect queue (effectQueue) as one state machine.                        *)
(*                                                                         *)
(* Time is Date.now() in milliseconds.  Angles are whole degrees, scene    *)
(* darkness and luminosity are tenths (0.5 is 5).  JavaScript runs one     *)
(* task at a time: every action is one task run to its next await.  The    *)
(* continuations of a resolution are promise jobs, so the clock stands     *)
(* still while a resolution is in flight; hooks, timers that are due,      *)
(* animation frames and write replies may still run in between, since the  *)
(* dynamic import inside the resolution may yield to them.                 *)
(***************************************************************************)
EXTENDS Integers, Sequences, FiniteSets

VARIABLES
  now,                \* Date.now()
  settings,           \* game.settings of the module
  scene,              \* canvas.scene.environment
  lights,             \* canvas.lighting.objects.children (ambient lights)
  tiles,              \* canvas.tiles.placeables
  tokens,             \* canvas.tokens.placeables: token document and actor data
  lightLevel,         \* actor flag tokenlightcondition.lightLevel
  effects,            \* actor.effects created by the module, oldest first
  processingCircuitBreaker,  \* TokenHelpers.processingCircuitBreaker
  pendingOperations,  \* effectQueue.pendingOperations, in insertion order
  processingActive,   \* effectQueue.processingActive
  animationFrames,    \* outstanding requestAnimationFrame callbacks
  drains,             \* processQueue executions suspended at an awaited write
  clears,             \* clearEffects calls of toggleModule awaiting their delete
  lightingTimeout,    \* token._lightingTimeout of each token
  refreshTimeoutId,   \* the scene-wide debounce timer
  processingUpdate,   \* the scene-wide in-flight flag
  passes,             \* calculateAllTokensLighting calls awaiting their refresh
  resolving,          \* calculateTokenLighting calls suspended at their first await
  initializing,       \* initializeToken calls awaiting setFlag('initialized')
  timers,             \* pending setTimeout callbacks of the host
  lastPass,           \* when each token's last accepted resolution pass began
  failures,           \* document writes that have been rejected so far
  probe,              \* the last determineLightLevel call and what it returned
  lastEvent,          \* the last hook, timer or callback that ran
  triggers,           \* external events so far
  toggles,            \* toggleModule calls so far
  creatingEffects,    \* Effects.creatingEffects: the lock keys held
  adding              \* Effects._addEffect calls awaiting _addCoreEffect

vars == <<now, settings, scene, lights, tiles, tokens, lightLevel, effects,
          processingCircuitBreaker, pendingOperations, processingActive,
          animationFrames, drains, clears, lightingTimeout, refreshTimeoutId,
          processingUpdate, passes, resolving, initializing, timers, lastPass,
          failures, probe, lastEvent, triggers, toggles, creatingEffects,
          adding>>

(***************************************************************************)
(* Constants of the program                                                *)
(***************************************************************************)
DARK == 0
DIM == 1
BRIGHT == 2
PROCESSING_COOLDOWN == 500
MAX_OPERATION_AGE == 5000
VALID_ACTOR_TYPES == {"character", "npc"}

\* undefined: a Map miss, a timer id never assigned, missing data
Undefined == -1
\* getFlag of a flag that is not set
Unset == "unset"

Tokens == {"t1", "t2"}
\* the order of canvas.tokens.placeables
Placeables == <<"t1", "t2">>

\* canvas.tokens.placeables: the tokens that are on the canvas
canvasTokens(toks) == SelectSeq(Placeables, LAMBDA t : toks[t].present)

Max(a, b) == IF a >= b THEN a ELSE b
Abs(a) == IF a < 0 THEN 0 - a ELSE a

(***************************************************************************)
(* Geometry                                                                *)
(***************************************************************************)
GridSize == 1
GridDistance == 1

\* TokenHelpers.calculate3DDistance, squared: Math.sqrt is monotone, so the
\* comparisons with a radius are made on the squares.
calculate3DDistanceSq(token, source) ==
  LET tz == (token.elevation \div GridDistance) * GridSize
      lz == (source.elevation \div GridDistance) * GridSize
      deltaX == Abs(token.x - source.x)
      deltaY == Abs(token.y - source.y)
      deltaZ == Abs(tz - lz)
  IN deltaX * deltaX + deltaY * deltaY + deltaZ * deltaZ

\* A comparison that leaves the radius itself outside.
DistanceWithin_strict(dsq, radius) == radius >= 0 /\ dsq < radius * radius

\* tokenDistance <= radius
DistanceWithin(dsq, radius) == radius >= 0 /\ dsq <= radius * radius

\* LightingCalculator.calculateLightAngle: atan2(deltaX, deltaY) in degrees,
\* normalised to [0, 360); exact on the axes and the diagonals.
calculateLightAngle(token, source) ==
  LET deltaX == source.x - token.x
      deltaY == token.y - source.y
  IN CASE deltaX = 0 /\ deltaY = 0 -> 0
       [] deltaX = 0 /\ deltaY > 0 -> 0
       [] deltaX > 0 /\ deltaY = deltaX -> 45
       [] deltaX > 0 /\ deltaY = 0 -> 90
       [] deltaX > 0 /\ deltaY = 0 - deltaX -> 135
       [] deltaX = 0 /\ deltaY < 0 -> 180
       [] deltaX < 0 /\ deltaY = deltaX -> 225
       [] deltaX < 0 /\ deltaY = 0 -> 270
       [] deltaX < 0 /\ deltaY = 0 - deltaX -> 315
       [] OTHER -> IF deltaX > 0 THEN 90 ELSE 270

\* A cone test that takes the difference of the two angles as it is.
_isTokenInLightAngle_nowrap(token, source) ==
  IF source.angle >= 360 THEN TRUE
  ELSE 2 * Abs(calculateLightAngle(token, source) - source.rotation) <= source.angle

\* the angleDifference of _isTokenInLightAngle, after its wrapping
angleDifference(tokenAngle, lightRotation) ==
  LET d == Abs(tokenAngle - lightRotation)
  IN IF d > 180 THEN 360 - d ELSE d

\* LightingCalculator._isTokenInLightAngle
_isTokenInLightAngle(token, source) ==
  IF source.angle >= 360 THEN TRUE
  ELSE 2 * angleDifference(calculateLightAngle(token, source), source.rotation)
         <= source.angle

\* A collision test that never finds a wall.
hasWallCollision_never(token, source) == FALSE

\* TokenHelpers.hasWallCollision: the sight backend's collision test between
\* the two centres; a test that throws counts as no collision.
hasWallCollision(token, source) == source.walled

(***************************************************************************)
(* Light level resolver                                                    *)
(***************************************************************************)
\* A tile test that lets a tile at the token's own elevation restrict it.
_isTokenUnderLightRestrictingTile_level(t) ==
  \E i \in DOMAIN tiles :
    /\ tiles[i].restrictsLight
    /\ t \in tiles[i].over
    /\ tokens[t].elevation <= tiles[i].elevation

\* LightingCalculator._isTokenUnderLightRestrictingTile
_isTokenUnderLightRestrictingTile(t) ==
  \E i \in DOMAIN tiles :
    /\ tiles[i].restrictsLight
    /\ t \in tiles[i].over
    /\ tokens[t].elevation < tiles[i].elevation

\* LightingCalculator._checkGlobalIllumination
_checkGlobalIllumination(t) ==
  LET globalLightThreshold ==
        IF scene.threshold = Undefined THEN 10 ELSE scene.threshold
  IN /\ scene.globalLight
     /\ globalLightThreshold # 0
     /\ scene.darkness <= globalLightThreshold
     /\ ~_isTokenUnderLightRestrictingTile(t)

\* A source of negative luminosity darkens whatever the setting says.
_processIndividualLight_signed(token, source, currentLightLevel, globalIlluminationActive, supportNegativeLights) ==
  LET tokenDistance == calculate3DDistanceSq(token, source)
      dimRadius == source.dim
      brightRadius == source.bright
      isNegativeLight == source.luminosity < 0
      afterDim ==
        IF DistanceWithin(tokenDistance, dimRadius) /\ dimRadius > 0
        THEN IF isNegativeLight /\ currentLightLevel > DIM THEN DIM
             ELSE IF ~isNegativeLight /\ currentLightLevel < DIM THEN DIM
             ELSE currentLightLevel
        ELSE currentLightLevel
      afterBright ==
        IF DistanceWithin(tokenDistance, brightRadius) /\ brightRadius > 0
        THEN IF isNegativeLight /\ currentLightLevel > DARK THEN DARK
             ELSE IF /\ ~isNegativeLight
                     /\ currentLightLevel < BRIGHT
                     /\ ~globalIlluminationActive THEN BRIGHT
             ELSE afterDim
        ELSE afterDim
  IN IF ~source.active THEN currentLightLevel
     ELSE IF ~DistanceWithin(tokenDistance, Max(dimRadius, brightRadius))
       THEN currentLightLevel
     ELSE IF ~_isTokenInLightAngle(token, source) THEN currentLightLevel
     ELSE IF hasWallCollision(token, source) THEN currentLightLevel
     ELSE afterBright

\* LightingCalculator._processIndividualLight
_processIndividualLight(token, source, currentLightLevel, globalIlluminationActive, supportNegativeLights) ==
  LET tokenDistance == calculate3DDistanceSq(token, source)
      dimRadius == source.dim
      brightRadius == source.bright
      isNegativeLight == supportNegativeLights /\ source.luminosity < 0
      afterDim ==
        IF DistanceWithin(tokenDistance, dimRadius) /\ dimRadius > 0
        THEN IF isNegativeLight /\ currentLightLevel > DIM THEN DIM
             ELSE IF ~isNegativeLight /\ currentLightLevel < DIM THEN DIM
             ELSE currentLightLevel
        ELSE currentLightLevel
      afterBright ==
        IF DistanceWithin(tokenDistance, brightRadius) /\ brightRadius > 0
        THEN IF isNegativeLight /\ currentLightLevel > DARK THEN DARK
             ELSE IF /\ ~isNegativeLight
                     /\ currentLightLevel < BRIGHT
                     /\ ~globalIlluminationActive THEN BRIGHT
             ELSE afterDim
        ELSE afterDim
  IN IF ~source.active THEN currentLightLevel
     ELSE IF ~DistanceWithin(tokenDistance, Max(dimRadius, brightRadius))
       THEN currentLightLevel
     ELSE IF ~_isTokenInLightAngle(token, source) THEN currentLightLevel
     ELSE IF hasWallCollision(token, source) THEN currentLightLevel
     ELSE afterBright

\* The light a token placeable carries, at the token's own position.
TokenLightSource(t) ==
  [tokens[t].light EXCEPT !.x = tokens[t].x, !.y = tokens[t].y,
                          !.elevation = tokens[t].elevation]

RECURSIVE PlaceableSources(_)
PlaceableSources(ids) ==
  IF ids = <<>> THEN <<>>
  ELSE <<TokenLightSource(Head(ids))>> \o PlaceableSources(Tail(ids))

\* A catalog that is processed in the order of the scene's collections.
SortByLuminosity_unsorted(seq) == seq

\* Array.prototype.sort with (a, b) => b.luminosity - a.luminosity: stable,
\* brightest first.  Insert puts a source behind every source that is at
\* least as bright.
RECURSIVE Insert(_, _)
Insert(sorted, s) ==
  IF sorted = <<>> THEN <<s>>
  ELSE IF Head(sorted).luminosity >= s.luminosity
       THEN <<Head(sorted)>> \o Insert(Tail(sorted), s)
       ELSE <<s>> \o sorted

RECURSIVE SortByLuminosity(_)
SortByLuminosity(seq) ==
  IF seq = <<>> THEN <<>>
  ELSE Insert(SortByLuminosity(SubSeq(seq, 1, Len(seq) - 1)), seq[Len(seq)])

RECURSIVE ProcessEach(_, _, _, _, _)
ProcessEach(token, sources, level, gi, neg) ==
  IF sources = <<>> THEN level
  ELSE ProcessEach(token, Tail(sources),
                   _processIndividualLight(token, Head(sources), level, gi, neg),
                   gi, neg)

\* A _processLightSources that sorts canvas.lighting.objects.children itself.
childrenAfterSort_inplace(ambient) == SortByLuminosity(ambient)

\* canvas.lighting.objects.children after _processLightSources: the sources
\* are spread into a new array, and it is that array which sort reorders.
childrenAfterSort(ambient) == ambient

\* [...canvas.lighting.objects.children, ...canvas.tokens.placeables], with
\* `ambient` for the children of canvas.lighting.objects
LightSources(ambient) == ambient \o PlaceableSources(canvasTokens(tokens))

\* LightingCalculator._processLightSources over the ambient lights `ambient`
ProcessLightSources(t, ambient, currentLightLevel, globalIlluminationActive) ==
  LET lightSources == LightSources(ambient)
      sortedLights == SortByLuminosity(lightSources)
  IN ProcessEach(tokens[t], sortedLights, currentLightLevel,
                 globalIlluminationActive, settings.negativeLights)

\* LightingCalculator._processLightSources
_processLightSources(t, currentLightLevel, globalIlluminationActive) ==
  ProcessLightSources(t, lights, currentLightLevel, globalIlluminationActive)

\* LightingCalculator._convertLightLevelToText
_convertLightLevelToText(level) ==
  CASE level = DARK -> "dark"
    [] level = DIM -> "dim"
    [] level = BRIGHT -> "bright"
    [] OTHER -> "bright"

\* Where an exception is raised inside determineLightLevel's try block: in
\* game.settings.get, in _checkGlobalIllumination (no canvas.scene), or in
\* _processLightSources (a source without data).
Faults == {"none", "settings", "global", "sources"}

\* The try block of determineLightLevel over the ambient lights `ambient`:
\* the numeric level it reaches, or the exception of the first faulty step
\* it runs.
TryResolveIn(t, fault, ambient) ==
  IF fault = "settings" THEN [thrown |-> TRUE, level |-> DARK]
  ELSE
    LET globalConfig == settings.globalIllumination
    IN IF globalConfig /\ fault = "global" THEN [thrown |-> TRUE, level |-> DARK]
       ELSE
         LET globalIlluminationActive == globalConfig /\ _checkGlobalIllumination(t)
             start == IF globalIlluminationActive THEN BRIGHT ELSE DARK
             shouldCheckIndividualLights ==
               ~globalIlluminationActive \/ settings.negativeLights
         IN IF ~shouldCheckIndividualLights THEN [thrown |-> FALSE, level |-> start]
            ELSE IF fault = "sources" THEN [thrown |-> TRUE, level |-> start]
            ELSE [thrown |-> FALSE,
                  level |-> ProcessLightSources(t, ambient, start,
                                                globalIlluminationActive)]

\* A resolver that leaves the sources alone whenever global illumination is
\* active.
TryResolve_globalonly(t, fault) ==
  IF settings.globalIllumination /\ _checkGlobalIllumination(t) /\ fault = "none"
  THEN [thrown |-> FALSE, level |-> BRIGHT]
  ELSE TryResolveIn(t, fault, lights)

\* The try block of determineLightLevel in the scene as it is
TryResolve(t, fault) == TryResolveIn(t, fault, lights)

\* A determineLightLevel that lets the exception escape.
determineLightLevel_nocatch(t, fault) ==
  LET r == TryResolve(t, fault)
  IN IF r.thrown THEN "exception" ELSE _convertLightLevelToText(r.level)

\* LightingCalculator.determineLightLevel
determineLightLevel(t, fault) ==
  LET r == TryResolve(t, fault)
  IN IF r.thrown THEN "bright" ELSE _convertLightLevelToText(r.level)

(***************************************************************************)
(* Token checks                                                            *)
(***************************************************************************)
\* JavaScript truthiness of a number that may be undefined
Truthy(v) == v # Undefined /\ v # 0

\* TokenHelpers.isValidToken, its result
isValidToken(toks, t) ==
  /\ toks[t].type \in VALID_ACTOR_TYPES
  /\ toks[t].initialized

\* A hit point check that takes 0 hit points for alive.
hasValidHitPoints_nonnegative(toks, t) == toks[t].hp # Undefined /\ toks[t].hp >= 0

\* TokenHelpers.hasValidHitPoints
hasValidHitPoints(toks, t) == toks[t].hp # Undefined /\ toks[t].hp > 0

\* A circuit breaker that lets every call through.
canProcessToken_nocooldown(cb, tokenId) ==
  [ok |-> TRUE, cb |-> [cb EXCEPT ![tokenId] = now]]

\* TokenHelpers.canProcessToken: the answer and the map it leaves
canProcessToken(cb, tokenId) ==
  LET lastProcessed == cb[tokenId]
  IN IF Truthy(lastProcessed) /\ now - lastProcessed < PROCESSING_COOLDOWN
     THEN [ok |-> FALSE, cb |-> cb]
     ELSE [ok |-> TRUE, cb |-> [cb EXCEPT ![tokenId] = now]]

(***************************************************************************)
(* The state the handlers share.  A handler is a function from this record *)
(* to this record, so that a handler that calls another is a composition.  *)
(*   calls: what calculateTokenLighting answered for each token in the     *)
(*          step                                                           *)
(*   enq:   what effectQueue.add did for each token in the step            *)
(***************************************************************************)
NoCalls == [t \in Tokens |-> "none"]
NoEnq == [t \in Tokens |-> "none"]

Cur ==
  [cb |-> processingCircuitBreaker, res |-> resolving, ini |-> initializing,
   ops |-> pendingOperations, raf |-> animationFrames,
   active |-> processingActive, drains |-> drains, clears |-> clears,
   tmo |-> lightingTimeout,
   rid |-> refreshTimeoutId, upd |-> processingUpdate, passes |-> passes,
   timers |-> timers,
   last |-> lastPass, calls |-> NoCalls, enq |-> NoEnq]

(***************************************************************************)
(* effectQueue                                                             *)
(***************************************************************************)
IsDue(op, at) == at - op.timestamp < MAX_OPERATION_AGE

\* the validOperations of processQueue: the snapshot without its stale entries
validOperations(operations, at) == SelectSeq(operations, LAMBDA op : IsDue(op, at))

\* A processTokenEffects that adds the marker whatever the settings say.
AfterClear_always(ops) ==
  IF Head(ops).lightLevel \in {"dark", "dim"}
  THEN [ops |-> ops, stage |-> "add"]
  ELSE [ops |-> ops, stage |-> "flag"]

\* The loop of processQueue from the head of `ops` to the first awaited
\* document write: entries whose token is missing or invalid are skipped;
\* (canvas.tokens.get answers undefined for a token that has been deleted);
\* clearEffects deletes only if the actor carries module effects;
\* _addLightingEffect creates only for dark and dim and with addEffects on;
\* the lightLevel flag is always written.  An enqueued token was valid when
\* enqueued and its 'initialized' flag is never unset, so isValidToken starts
\* no initialization here.
AfterClear(ops) ==
  IF Head(ops).lightLevel \in {"dark", "dim"} /\ settings.addEffects
  THEN [ops |-> ops, stage |-> "add"]
  ELSE [ops |-> ops, stage |-> "flag"]

\* A reconciliation that adds the new marker next to the ones the actor
\* carries.
RECURSIVE StartEntry_noclear(_)
StartEntry_noclear(ops) ==
  IF ops = <<>> THEN [ops |-> <<>>, stage |-> "done"]
  ELSE IF ~(tokens[Head(ops).tokenId].present /\ isValidToken(tokens, Head(ops).tokenId)) THEN StartEntry_noclear(Tail(ops))
  ELSE AfterClear(ops)

\* token && TokenHelpers.isValidToken(token) of processQueue's loop
Reconcilable(toks, tokenId) == toks[tokenId].present /\ isValidToken(toks, tokenId)

RECURSIVE StartEntry(_)
StartEntry(ops) ==
  IF ops = <<>> THEN [ops |-> <<>>, stage |-> "done"]
  ELSE IF ~Reconcilable(tokens, Head(ops).tokenId) THEN StartEntry(Tail(ops))
  ELSE IF effects[Head(ops).tokenId] # <<>> THEN [ops |-> ops, stage |-> "clear"]
  ELSE AfterClear(ops)

\* A processTokenEffects that lets a rejected write escape: processQueue's
\* catch block ends the batch.
processTokenEffects_nocatch(d, ok) ==
  IF ~ok THEN [ops |-> <<>>, stage |-> "done"]
  ELSE CASE d.stage = "clear" -> AfterClear(d.ops)
         [] d.stage = "add" -> [ops |-> d.ops, stage |-> "flag"]
         [] OTHER -> StartEntry(Tail(d.ops))

\* effectQueue.processTokenEffects from one awaited write to the next, and
\* processQueue's loop behind it.  A delete that is rejected is caught in
\* clearEffects, a create in _addLightingEffect, a flag write in
\* processTokenEffects itself, so the answer of the write changes nothing in
\* what follows.
processTokenEffects(d, ok) ==
  CASE d.stage = "clear" -> AfterClear(d.ops)
    [] d.stage = "add" -> [ops |-> d.ops, stage |-> "flag"]
    [] OTHER -> StartEntry(Tail(d.ops))

\* A processQueue that starts whenever operations are pending.
processQueueGuard_unguarded(k) == k.ops # <<>>

\* processQueue's first line
processQueueGuard(k) == ~(k.active \/ k.ops = <<>>)

\* A processQueue that leaves the operations of its snapshot in the map.
processQueue_keeps(k) ==
  IF ~processQueueGuard(k) THEN k
  ELSE LET d == StartEntry(validOperations(k.ops, now))
       IN IF d.stage = "done"
          THEN [k EXCEPT !.active = FALSE]
          ELSE [k EXCEPT !.active = TRUE, !.drains = Append(@, d)]

\* effectQueue.processQueue up to its first awaited write (or to its end)
processQueue(k) ==
  IF ~processQueueGuard(k) THEN k
  ELSE LET d == StartEntry(validOperations(k.ops, now))
       IN IF d.stage = "done"
          THEN [k EXCEPT !.ops = <<>>, !.active = FALSE]
          ELSE [k EXCEPT !.ops = <<>>, !.active = TRUE,
                         !.drains = Append(@, d)]

\* A scheduleProcessing that drains in the caller's stack.
scheduleProcessing_inline(k) == IF k.active THEN k ELSE processQueue(k)

\* effectQueue.scheduleProcessing
scheduleProcessing(k) ==
  IF k.active THEN k ELSE [k EXCEPT !.raf = @ + 1]

HasOp(ops, tokenId) == \E i \in DOMAIN ops : ops[i].tokenId = tokenId

\* Map.prototype.set on pendingOperations: an existing key keeps its place
MapSet(ops, op) ==
  IF HasOp(ops, op.tokenId)
  THEN [i \in DOMAIN ops |-> IF ops[i].tokenId = op.tokenId THEN op ELSE ops[i]]
  ELSE Append(ops, op)

\* An add that appends a second operation for the token.
add_append(k, tokenId, level) ==
  scheduleProcessing(
    [k EXCEPT !.ops = Append(@, [tokenId |-> tokenId, lightLevel |-> level,
                                 timestamp |-> now]),
              !.enq[tokenId] = IF HasOp(k.ops, tokenId) THEN "replaced" ELSE "new"])

\* effectQueue.add
add(k, tokenId, level) ==
  scheduleProcessing(
    [k EXCEPT !.ops = MapSet(@, [tokenId |-> tokenId, lightLevel |-> level,
                                 timestamp |-> now]),
              !.enq[tokenId] = IF HasOp(k.ops, tokenId) THEN "replaced" ELSE "new"])

(***************************************************************************)
(* Resolution passes                                                       *)
(***************************************************************************)
\* isValidToken's side effect: an actor of a valid type without the
\* 'initialized' flag gets an initializeToken call, which awaits the flag write.
validate(k, toks, t) ==
  IF /\ toks[t].type \in VALID_ACTOR_TYPES
     /\ ~toks[t].initialized
     /\ settings.isGM
  THEN [k EXCEPT !.ini[t] = @ + 1]
  ELSE k

\* LightingCalculator.calculateTokenLighting up to its first await: the three
\* early returns, the circuit breaker, the hit point check.
calculateTokenLighting(k, toks, t, inPass) ==
  IF ~settings.isGM THEN k
  ELSE IF ~isValidToken(toks, t)
    THEN [validate(k, toks, t) EXCEPT
            !.calls[t] = "invalid"]
  ELSE LET c == canProcessToken(k.cb, t)
       IN IF ~c.ok
          THEN [k EXCEPT !.calls[t] = "blocked"]
          ELSE [k EXCEPT
                  !.cb = c.cb,
                  !.last[t] = now,
                  !.calls[t] = "accepted",
                  !.res = Append(@, [tok |-> t, pass |-> inPass,
                                     alive |-> hasValidHitPoints(toks, t)])]

\* The rest of calculateTokenLighting: the level of a living token is
\* resolved and compared with the stored flag, a token without hit points is
\* cleared.  Resolution reads the scene as it is when the pass resumes.
finishTokenLighting(k, entry) ==
  IF entry.alive
  THEN LET level == determineLightLevel(entry.tok, "none")
           currentLightLevel == lightLevel[entry.tok]
       IN IF currentLightLevel # level THEN add(k, entry.tok, level) ELSE k
  ELSE add(k, entry.tok, "clear")

RECURSIVE ValidateEach(_, _, _)
ValidateEach(k, toks, ids) ==
  IF ids = <<>> THEN k
  ELSE ValidateEach(validate(k, toks, Head(ids)), toks, Tail(ids))

RECURSIVE CalculateAll(_, _, _, _)
CalculateAll(k, toks, ids, inPass) ==
  IF ids = <<>> THEN k
  ELSE CalculateAll(calculateTokenLighting(k, toks, Head(ids), inPass), toks,
                    Tail(ids), inPass)

CalculateEach(k, toks, ids) == CalculateAll(k, toks, ids, TRUE)

\* LightingCalculator.refreshAllTokenLighting up to its await; inPass tells
\* whether calculateAllTokensLighting waits for the calls.
refreshAllTokenLightingFrom(k, toks, inPass) ==
  LET validTokens == SelectSeq(canvasTokens(toks), LAMBDA t : isValidToken(toks, t))
  IN CalculateAll(ValidateEach(k, toks, canvasTokens(toks)), toks, validTokens, inPass)

\* LightingCalculator.refreshAllTokenLighting called by calculateAllTokensLighting
refreshAllTokenLighting(k, toks) == refreshAllTokenLightingFrom(k, toks, TRUE)

\* calculateAllTokensLighting up to its await
calculateAllTokensLighting(k, toks) ==
  IF k.upd THEN k
  ELSE refreshAllTokenLighting([k EXCEPT !.upd = TRUE, !.passes = @ + 1], toks)

(***************************************************************************)
(* Debouncing.  A timer is named by its owner and its deadline; the id a   *)
(* variable keeps of a timer that has fired is dropped, since clearTimeout *)
(* of it does nothing.                                                     *)
(***************************************************************************)
clearTimeout(pending, owner, id) ==
  IF Truthy(id) THEN pending \ {[owner |-> owner, at |-> id]} ELSE pending

\* A debounce that never cancels the timer it replaces.
debounceTokenCalculation_noclear(k, toks, t) ==
  IF settings.delay > 0
  THEN [k EXCEPT !.timers = @ \cup {[owner |-> t, at |-> now + settings.delay]},
                 !.tmo[t] = now + settings.delay]
  ELSE calculateTokenLighting(k, toks, t, FALSE)

\* debounceTokenCalculation
debounceTokenCalculation(k, toks, t) ==
  LET cleared == clearTimeout(k.timers, t, k.tmo[t])
      delay == settings.delay
  IN IF delay > 0
     THEN [k EXCEPT !.timers = cleared \cup {[owner |-> t, at |-> now + delay]},
                    !.tmo[t] = now + delay]
     ELSE calculateTokenLighting(
            [k EXCEPT !.timers = cleared, !.tmo[t] = Undefined], toks, t, FALSE)

\* debounceAllTokensCalculation
debounceAllTokensCalculation(k, toks) ==
  IF k.upd THEN k
  ELSE LET cleared == clearTimeout(k.timers, "scene", k.rid)
           delay == settings.delay
       IN IF delay > 0
          THEN [k EXCEPT !.timers = cleared \cup {[owner |-> "scene", at |-> now + delay]},
                         !.rid = now + delay]
          ELSE calculateAllTokensLighting(
                 [k EXCEPT !.timers = cleared, !.rid = Undefined], toks)

(***************************************************************************)
(* Hooks                                                                   *)
(***************************************************************************)
movementKeys == {"x", "y", "elevation", "hidden"}
lightKeys == {"light.bright", "light.dim", "light.luminosity", "light.angle",
              "light.rotation"}

\* An updateToken handler that takes every change for a movement.
hasMovement_any(changes) == changes # {}

hasMovement(changes) == changes \cap movementKeys # {}
hasLightChange(changes) == changes \cap lightKeys # {}

\* Handlers that run for every user and in every state of the module.
HandlerRuns_always == TRUE

\* TokenHelpers.isModuleEnabled with the GM check that opens every handler
HandlerRuns == settings.isGM /\ settings.enable

\* Hooks.on('updateToken')
onUpdateToken(k, toks, t, changes) ==
  IF ~HandlerRuns THEN k
  ELSE IF hasMovement(changes)
    THEN IF isValidToken(toks, t)
         THEN debounceTokenCalculation(k, toks, t)
         ELSE validate(k, toks, t)
  ELSE IF hasLightChange(changes) THEN debounceAllTokensCalculation(k, toks)
  ELSE k

\* Hooks.on('createAmbientLight' | 'updateAmbientLight' | 'deleteAmbientLight')
onAmbientLight(k, toks) ==
  IF ~HandlerRuns THEN k ELSE debounceAllTokensCalculation(k, toks)

\* the delay of createToken's first calculation
CREATE_DELAY == 150

\* the timer createToken sets for a token; it is kept in no variable and is
\* never cleared
CreateOwner(t) == IF t = "t1" THEN "create_t1" ELSE "create_t2"
TimerToken(owner) == IF owner \in Tokens THEN owner
                     ELSE CHOOSE t \in Tokens : CreateOwner(t) = owner

\* Hooks.on('createToken')
onCreateToken(k, toks, t) ==
  IF ~HandlerRuns THEN k
  ELSE IF isValidToken(toks, t)
    THEN [k EXCEPT !.timers = @ \cup {[owner |-> CreateOwner(t),
                                        at |-> now + CREATE_DELAY]}]
  ELSE validate(k, toks, t)

sceneLightingKeys == {"environment.darknessLevel", "environment.globalLight"}

\* Hooks.on('updateScene') for the scene on the canvas
onUpdateScene(k, toks, changes) ==
  IF ~HandlerRuns THEN k
  ELSE IF changes \cap sceneLightingKeys # {} THEN debounceAllTokensCalculation(k, toks)
  ELSE k

\* EffectsManager.clearEffects up to its await: _clearGenericEffects collects
\* the module's markers of the actor and deletes them, if there are any.  The
\* markers of an actor are kept oldest first, so the ones collected are the
\* first n.
clearEffects(k, t) ==
  IF effects[t] # <<>>
  THEN [k EXCEPT !.clears = Append(@, [tok |-> t, n |-> Len(effects[t])])]
  ELSE k

RECURSIVE ClearEach(_, _)
ClearEach(k, ids) ==
  IF ids = <<>> THEN k ELSE ClearEach(clearEffects(k, Head(ids)), Tail(ids))

\* TokenHelpers.toggleModule after the setting is stored, up to its await
toggleModule(k, toks, enabled) ==
  IF ~settings.isGM THEN k
  ELSE IF enabled THEN refreshAllTokenLightingFrom(k, toks, FALSE)
  ELSE LET validTokens == SelectSeq(canvasTokens(toks), LAMBDA t : isValidToken(toks, t))
       IN ClearEach(ValidateEach(k, toks, canvasTokens(toks)), validTokens)

\* The onChange of the addEffects setting (the canvas is ready);
\* initializeEffects touches no token of a generic system.
onChangeAddEffects(k, toks, value) ==
  IF ~settings.isGM THEN k
  ELSE IF value THEN k
  ELSE refreshAllTokenLightingFrom(k, toks, FALSE)

(***************************************************************************)
(* Bounds and the scenes the model starts from                             *)
(***************************************************************************)
\* Date.now() when the scene is ready, and how far the clock runs on each
\* time scale
StartTime == 1000
MaxTime == 1500
MaxQueueTime == 8500
\* how many times users change the scene
MaxTriggers == 2
\* how many document writes the server rejects
MaxFailures == 1
\* how many initializeToken calls of one token wait for their write at once
MaxInit == 1
\* how many times Effects._addEffect is called
MaxAdds == 3

TickSteps == {100, 400}
QueueTickSteps == {2500}
Delays == {0, 200}
Positions == {5, 15}
Torchbearer == "t2"

NoLight ==
  [active |-> FALSE, x |-> 0, y |-> 0, elevation |-> 0, dim |-> 0, bright |-> 0,
   angle |-> 360, rotation |-> 0, luminosity |-> 0, walled |-> FALSE]
Torch == [NoLight EXCEPT !.active = TRUE, !.dim = 10, !.bright = 5, !.luminosity = 5]
Lamp == [NoLight EXCEPT !.active = TRUE, !.dim = 20, !.bright = 10, !.luminosity = 5]

Token(x, initialized) ==
  [x |-> x, y |-> 0, elevation |-> 0, hp |-> 10, type |-> "character",
   initialized |-> initialized, light |-> NoLight, present |-> TRUE]

Quiet(type) ==
  [type |-> type, tok |-> "", changes |-> {}, calls |-> NoCalls, enq |-> NoEnq]

NoProbe == [tok |-> "", fault |-> "none", thrown |-> FALSE, out |-> ""]

\* The module's own state when the scene is ready: nothing scheduled, nothing
\* queued, no pass made.
Idle ==
  /\ now = StartTime
  /\ processingCircuitBreaker = [t \in Tokens |-> Undefined]
  /\ pendingOperations = <<>>
  /\ processingActive = FALSE
  /\ animationFrames = 0
  /\ drains = <<>>
  /\ clears = <<>>
  /\ lightingTimeout = [t \in Tokens |-> Undefined]
  /\ refreshTimeoutId = Undefined
  /\ processingUpdate = FALSE
  /\ passes = 0
  /\ resolving = <<>>
  /\ initializing = [t \in Tokens |-> 0]
  /\ timers = {}
  /\ lastPass = [t \in Tokens |-> Undefined]
  /\ failures = 0
  /\ probe = NoProbe
  /\ lastEvent = Quiet("ready")
  /\ triggers = 0
  /\ toggles = 0
  /\ creatingEffects = {}
  /\ adding = <<>>

\* A scene the module has not touched yet: no actor carries a flag or a
\* marker of the module.
AtRest ==
  /\ Idle
  /\ lightLevel = [t \in Tokens |-> Unset]
  /\ effects = [t \in Tokens |-> <<>>]

\* One lamp at the origin, two living tokens on the x axis, the second not
\* yet initialized by the module; no global illumination.
Init ==
  /\ AtRest
  /\ \E d \in Delays :
       settings = [enable |-> TRUE, isGM |-> TRUE, addEffects |-> TRUE,
                   globalIllumination |-> FALSE, negativeLights |-> FALSE,
                   delay |-> d]
  /\ scene = [globalLight |-> FALSE, darkness |-> 0, threshold |-> Undefined]
  /\ lights = <<Lamp>>
  /\ tiles = <<>>
  /\ tokens = [t \in Tokens |-> IF t = "t1" THEN Token(5, TRUE) ELSE Token(15, FALSE)]

(***************************************************************************)
(* Actions                                                                 *)
(***************************************************************************)
Commit(k) ==
  /\ \A t \in Tokens : k.ini[t] <= MaxInit
  /\ processingCircuitBreaker' = k.cb
  /\ resolving' = k.res
  /\ initializing' = k.ini
  /\ pendingOperations' = k.ops
  /\ animationFrames' = k.raf
  /\ processingActive' = k.active
  /\ drains' = k.drains
  /\ clears' = k.clears
  /\ lightingTimeout' = k.tmo
  /\ refreshTimeoutId' = k.rid
  /\ processingUpdate' = k.upd
  /\ passes' = k.passes
  /\ timers' = k.timers
  /\ lastPass' = k.last

Event(type, tok, changes, k) ==
  [type |-> type, tok |-> tok, changes |-> changes, calls |-> k.calls,
   enq |-> k.enq]

\* The token document after an update with these changes: a move goes to x,
\* a light change switches the token's torch.
Updated(t, changes, x) ==
  [tokens EXCEPT
     ![t].x = IF "x" \in changes THEN x ELSE @,
     ![t].light = IF "light.dim" \in changes
                  THEN (IF @.active THEN NoLight ELSE Torch) ELSE @]

\* A token document is updated and the updateToken hook runs.
UpdateToken(t, changes, x) ==
  /\ triggers < MaxTriggers
  /\ tokens[t].present
  /\ "x" \in changes => x # tokens[t].x
  /\ "x" \notin changes => x = tokens[t].x
  /\ tokens' = Updated(t, changes, x)
  /\ triggers' = triggers + 1
  /\ LET k == onUpdateToken(Cur, tokens', t, changes)
     IN Commit(k) /\ lastEvent' = Event("updateToken", t, changes, k)
  /\ UNCHANGED <<now, settings, scene, lights, tiles, lightLevel, effects,
                 failures, probe, toggles, creatingEffects, adding>>

\* An ambient light is switched and the updateAmbientLight hook runs.
UpdateAmbientLight ==
  /\ triggers < MaxTriggers
  /\ triggers' = triggers + 1
  /\ lights' = [lights EXCEPT ![1].active = ~@]
  /\ LET k == onAmbientLight(Cur, tokens)
     IN Commit(k) /\ lastEvent' = Event("updateAmbientLight", "", {}, k)
  /\ UNCHANGED <<now, settings, scene, tiles, tokens, lightLevel, effects,
                 failures, probe, toggles, creatingEffects, adding>>

\* A token is put on the canvas and the createToken hook runs.
CreateToken(t) ==
  /\ triggers < MaxTriggers
  /\ ~tokens[t].present
  /\ triggers' = triggers + 1
  /\ tokens' = [tokens EXCEPT ![t].present = TRUE]
  /\ LET k == onCreateToken(Cur, tokens', t)
     IN Commit(k) /\ lastEvent' = Event("createToken", t, {}, k)
  /\ UNCHANGED <<now, settings, scene, lights, tiles, lightLevel, effects,
                 failures, probe, toggles, creatingEffects, adding>>

\* The scene's darkness is changed between day and night and the updateScene
\* hook runs.
UpdateScene ==
  /\ triggers < MaxTriggers
  /\ triggers' = triggers + 1
  /\ scene' = [scene EXCEPT !.darkness = IF @ = 0 THEN 10 ELSE 0]
  /\ LET k == onUpdateScene(Cur, tokens, {"environment.darknessLevel"})
     IN Commit(k) /\ lastEvent' = Event("updateScene", "", {"environment.darknessLevel"}, k)
  /\ UNCHANGED <<now, settings, lights, tiles, tokens, lightLevel, effects,
                 failures, probe, toggles, creatingEffects, adding>>

\* A token is deleted from the canvas; the module listens to no deleteToken
\* hook.  The actor stays, and so does the token object held by a resolution
\* or an initialization in flight.
DeleteToken(t) ==
  /\ triggers < MaxTriggers
  /\ tokens[t].present
  /\ triggers' = triggers + 1
  /\ tokens' = [tokens EXCEPT ![t].present = FALSE]
  /\ lastEvent' = Event("deleteToken", t, {}, Cur)
  /\ UNCHANGED <<now, settings, scene, lights, tiles, lightLevel, effects,
                 processingCircuitBreaker, pendingOperations, processingActive,
                 animationFrames, drains, clears, lightingTimeout, refreshTimeoutId,
                 processingUpdate, passes, resolving, initializing, timers,
                 lastPass,
                 failures, probe, toggles, creatingEffects, adding>>

\* An actor's hit points change; the module listens to no actor hook.
UpdateHitPoints(t) ==
  /\ triggers < MaxTriggers
  /\ triggers' = triggers + 1
  /\ tokens' = [tokens EXCEPT ![t].hp = IF @ > 0 THEN 0 ELSE 10]
  /\ lastEvent' = Event("updateActor", t, {}, Cur)
  /\ UNCHANGED <<now, settings, scene, lights, tiles, lightLevel, effects,
                 processingCircuitBreaker, pendingOperations, processingActive,
                 animationFrames, drains, clears, lightingTimeout, refreshTimeoutId,
                 processingUpdate, passes, resolving, initializing, timers,
                 lastPass,
                 failures, probe, toggles, creatingEffects, adding>>

\* Time passes, between tasks only.
Tick(d, horizon) ==
  /\ resolving = <<>>
  /\ ~processingUpdate
  /\ now + d <= horizon
  /\ now' = now + d
  /\ lastEvent' = Quiet("tick")
  /\ UNCHANGED <<settings, scene, lights, tiles, tokens, lightLevel, effects,
                 processingCircuitBreaker, pendingOperations, processingActive,
                 animationFrames, drains, clears, lightingTimeout, refreshTimeoutId,
                 processingUpdate, passes, resolving, initializing, timers,
                 lastPass,
                 failures, probe, triggers, toggles, creatingEffects, adding>>

\* A setTimeout callback runs: a token's debounce timer calls
\* calculateTokenLighting, the scene timer calls calculateAllTokensLighting.
TimerFires(tm) ==
  /\ tm \in timers
  /\ now >= tm.at
  /\ LET k0 == [Cur EXCEPT
                  !.timers = @ \ {tm},
                  !.rid = IF tm.owner = "scene" /\ @ = tm.at THEN Undefined ELSE @,
                  !.tmo = [t \in Tokens |->
                             IF tm.owner = t /\ @[t] = tm.at THEN Undefined ELSE @[t]]]
         k == IF tm.owner = "scene"
              THEN calculateAllTokensLighting(k0, tokens)
              ELSE calculateTokenLighting(k0, tokens, TimerToken(tm.owner), FALSE)
     IN Commit(k) /\ lastEvent' = Event("timer", tm.owner, {}, k)
  /\ UNCHANGED <<now, settings, scene, lights, tiles, tokens, lightLevel,
                 effects, failures, probe, triggers, toggles,
                 creatingEffects, adding>>

\* TokenHelpers.initializeToken resumes after its setFlag: on success the
\* actor is initialized and the first calculation starts; a rejected write is
\* caught and logged.
InitializeSettles(t, ok) ==
  /\ initializing[t] > 0
  /\ ~ok => failures < MaxFailures
  /\ failures' = IF ok THEN failures ELSE failures + 1
  /\ tokens' = IF ok THEN [tokens EXCEPT ![t].initialized = TRUE] ELSE tokens
  /\ LET k0 == [Cur EXCEPT !.ini[t] = @ - 1]
         k == IF ok THEN calculateTokenLighting(k0, tokens', t, FALSE) ELSE k0
     IN Commit(k) /\ lastEvent' = Event("initializeToken", t, {}, k)
  /\ UNCHANGED <<now, settings, scene, lights, tiles, lightLevel, effects,
                 probe, triggers, toggles, creatingEffects, adding>>

\* The oldest suspended calculateTokenLighting resumes and runs to its end.
ResolutionResumes ==
  /\ resolving # <<>>
  /\ LET entry == Head(resolving)
         k == finishTokenLighting([Cur EXCEPT !.res = Tail(@)], entry)
     IN Commit(k) /\ lastEvent' = Event("resolved", entry.tok, {}, k)
  /\ UNCHANGED <<now, settings, scene, lights, tiles, tokens, lightLevel,
                 effects, failures, probe, triggers, toggles,
                 creatingEffects, adding>>

\* A calculateAllTokensLighting that leaves the flag set when it exits.
passExit_noreset(k) == [k EXCEPT !.passes = @ - 1]

\* The finally block of calculateAllTokensLighting
passExit(k) == [k EXCEPT !.upd = FALSE, !.passes = @ - 1]

\* calculateAllTokensLighting resumes after Promise.all, all calls of the
\* pass being over, and runs its finally block.
PassCompletes ==
  /\ passes > 0
  /\ \A i \in DOMAIN resolving : ~resolving[i].pass
  /\ LET k == passExit(Cur)
     IN Commit(k) /\ lastEvent' = Event("passDone", "", {}, k)
  /\ UNCHANGED <<now, settings, scene, lights, tiles, tokens, lightLevel,
                 effects, failures, probe, triggers, toggles,
                 creatingEffects, adding>>

\* A calculateTokenLighting call of the pass is rejected (isValidToken or
\* canProcessToken throws), so Promise.all rejects and
\* calculateAllTokensLighting leaves through its finally block; the other
\* calls of the pass go on, awaited by nobody.
PassThrows ==
  /\ passes > 0
  /\ failures < MaxFailures
  /\ failures' = failures + 1
  /\ LET k == passExit([Cur EXCEPT
                          !.res = [i \in DOMAIN @ |-> [@[i] EXCEPT !.pass = FALSE]]])
     IN Commit(k) /\ lastEvent' = Event("passThrown", "", {}, k)
  /\ UNCHANGED <<now, settings, scene, lights, tiles, tokens, lightLevel,
                 effects, probe, triggers, toggles, creatingEffects, adding>>

\* A requestAnimationFrame callback runs processQueue.
AnimationFrame ==
  /\ animationFrames > 0
  /\ LET k == processQueue([Cur EXCEPT !.raf = @ - 1])
     IN /\ Commit(k)
        /\ lastEvent' = Event("animationFrame", "", {}, k)
  /\ UNCHANGED <<now, settings, scene, lights, tiles, tokens, lightLevel,
                 effects, failures, probe, triggers, toggles,
                 creatingEffects, adding>>

RemoveAt(seq, i) == SubSeq(seq, 1, i - 1) \o SubSeq(seq, i + 1, Len(seq))

\* A finally block that does not look at the map again.
finishQueue_noreschedule(k, i) ==
  [k EXCEPT !.active = FALSE, !.drains = RemoveAt(@, i)]

\* The finally block of processQueue
finishQueue(k, i) ==
  LET k1 == [k EXCEPT !.active = FALSE, !.drains = RemoveAt(@, i)]
  IN IF k1.ops # <<>> THEN scheduleProcessing(k1) ELSE k1

\* The markers a pending clearEffects still has to delete, after the first n
\* markers of the actor have been deleted by someone else.
Forget(cs, t, n) ==
  [i \in DOMAIN cs |->
     IF cs[i].tok = t THEN [cs[i] EXCEPT !.n = Max(0, @ - n)] ELSE cs[i]]

\* The document write a drain awaits settles; the updateToken hook runs for
\* the change of the token's actor data, and processTokenEffects runs on
\* to the next write: a delete that fails is caught in clearEffects, a create
\* that fails in _addLightingEffect, a flag write that fails in
\* processTokenEffects; the loop then goes on with the next operation.
WriteSettles(i, ok) ==
  /\ i \in DOMAIN drains
  /\ ~ok => failures < MaxFailures
  /\ failures' = IF ok THEN failures ELSE failures + 1
  /\ LET d == drains[i]
         t == Head(d.ops).tokenId
         level == Head(d.ops).lightLevel
         next == processTokenEffects(d, ok)
         k0 == onUpdateToken(Cur, tokens, t, {"delta"})
         k1 == IF ok /\ d.stage = "clear"
               THEN [k0 EXCEPT !.clears = Forget(@, t, Len(effects[t]))]
               ELSE k0
         k == IF next.stage = "done" THEN finishQueue(k1, i)
              ELSE [k1 EXCEPT !.drains[i] = next]
     IN /\ effects' = CASE ok /\ d.stage = "clear" -> [effects EXCEPT ![t] = <<>>]
                        [] ok /\ d.stage = "add" -> [effects EXCEPT ![t] = Append(@, level)]
                        [] OTHER -> effects
        /\ lightLevel' = IF ok /\ d.stage = "flag"
                         THEN [lightLevel EXCEPT
                                 ![t] = IF level = "clear" THEN Unset ELSE level]
                         ELSE lightLevel
        /\ Commit(k)
        /\ lastEvent' = Event("write", t, {"delta"}, k)
  /\ UNCHANGED <<now, settings, scene, lights, tiles, tokens, probe, triggers, toggles,
                 creatingEffects, adding>>

\* The flag write a drain awaits settles and is stored, and the next step of
\* processQueue's loop (canvas.tokens.get, isValidToken) throws: the catch
\* block logs, the finally block ends the drain, and the rest of the
\* snapshot is lost.
DrainThrows(i) ==
  /\ i \in DOMAIN drains
  /\ drains[i].stage = "flag"
  /\ Len(drains[i].ops) > 1
  /\ failures < MaxFailures
  /\ failures' = failures + 1
  /\ LET t == Head(drains[i].ops).tokenId
         level == Head(drains[i].ops).lightLevel
         k == finishQueue(onUpdateToken(Cur, tokens, t, {"delta"}), i)
     IN /\ lightLevel' = [lightLevel EXCEPT
                            ![t] = IF level = "clear" THEN Unset ELSE level]
        /\ Commit(k)
        /\ lastEvent' = Event("thrown", t, {"delta"}, k)
  /\ UNCHANGED <<now, settings, scene, lights, tiles, tokens, effects, probe,
                 triggers, toggles, creatingEffects, adding>>

\* The module is switched on or off from the scene controls: the setting
\* is stored and toggleModule runs on.
ToggleModule(enabled) ==
  /\ triggers < MaxTriggers
  /\ enabled # settings.enable
  /\ triggers' = triggers + 1
  /\ toggles' = toggles + 1
  /\ settings' = [settings EXCEPT !.enable = enabled]
  /\ LET k == toggleModule(Cur, tokens, enabled)
     IN Commit(k) /\ lastEvent' = Event("toggleModule", "", {}, k)
  /\ UNCHANGED <<now, scene, lights, tiles, tokens, lightLevel, effects,
                 failures, probe, creatingEffects, adding>>

\* The addEffects setting is changed and its onChange runs.
SetAddEffects(value) ==
  /\ triggers < MaxTriggers
  /\ value # settings.addEffects
  /\ triggers' = triggers + 1
  /\ settings' = [settings EXCEPT !.addEffects = value]
  /\ LET k == onChangeAddEffects(Cur, tokens, value)
     IN Commit(k) /\ lastEvent' = Event("addEffects", "", {}, k)
  /\ UNCHANGED <<now, scene, lights, tiles, tokens, lightLevel, effects,
                 failures, probe, toggles, creatingEffects, adding>>

\* The delete a clearEffects call of toggleModule awaits settles: the
\* markers it collected and that are still there are gone, and the
\* updateToken hook runs for the change of the actor.
ClearSettles(i) ==
  /\ i \in DOMAIN clears
  /\ LET c == clears[i]
         k0 == onUpdateToken(Cur, tokens, c.tok, {"delta"})
         k == [k0 EXCEPT !.clears = Forget(RemoveAt(@, i), c.tok, c.n)]
     IN /\ effects' = [effects EXCEPT ![c.tok] = SubSeq(@, c.n + 1, Len(@))]
        /\ Commit(k)
        /\ lastEvent' = Event("cleared", c.tok, {"delta"}, k)
  /\ UNCHANGED <<now, settings, scene, lights, tiles, tokens, lightLevel,
                 failures, probe, triggers, toggles, creatingEffects, adding>>

\* const lockKey = `${selectedToken.actor.id}-${effectType}`
lockKey(t, effectType) == <<t, effectType>>

\* An _addEffect that never finds the lock held.
lockHeld_never(held, key) == FALSE

\* this.creatingEffects.has(lockKey)
lockHeld(held, key) == key \in held

\* An _addEffect that gives the lock back only when nothing was thrown.
releaseLock_unlessThrown(held, key, ok) == IF ok THEN held \ {key} ELSE held

\* The finally block of _addEffect, whatever the outcome `ok` of the try
\* block
releaseLock(held, key, ok) == held \ {key}

\* selectedToken.actor.effects.find(... type === effectType)
existingEffect(t, effectType) ==
  \E i \in DOMAIN effects[t] : effects[t][i] = effectType

\* Effects._addEffect is called for a token's actor and runs to its return
\* or to the await of _addCoreEffect.
AddEffect(t, effectType) ==
  /\ triggers < MaxAdds
  /\ triggers' = triggers + 1
  /\ LET key == lockKey(t, effectType)
     IN IF ~settings.addEffects \/ lockHeld(creatingEffects, key)
        THEN UNCHANGED <<creatingEffects, adding>>
        ELSE IF existingEffect(t, effectType)
        THEN /\ creatingEffects' = releaseLock(creatingEffects \cup {key}, key, TRUE)
             /\ adding' = adding
        ELSE /\ creatingEffects' = creatingEffects \cup {key}
             /\ adding' = Append(adding, [tok |-> t, type |-> effectType])
  /\ lastEvent' = [Quiet("addEffect") EXCEPT !.tok = t, !.changes = {effectType}]
  /\ UNCHANGED <<now, settings, scene, lights, tiles, tokens, lightLevel, effects,
                 processingCircuitBreaker, pendingOperations, processingActive,
                 animationFrames, drains, clears, lightingTimeout, refreshTimeoutId,
                 processingUpdate, passes, resolving, initializing, timers,
                 lastPass, failures, probe, toggles>>

\* _addCoreEffect settles: the marker is created, or the creation throws
\* and _addCoreEffect throws on; either way _addEffect leaves through its
\* finally block.
AddSettles(i, ok) ==
  /\ i \in DOMAIN adding
  /\ ~ok => failures < MaxFailures
  /\ failures' = IF ok THEN failures ELSE failures + 1
  /\ LET a == adding[i]
     IN /\ effects' = IF ok THEN [effects EXCEPT ![a.tok] = Append(@, a.type)]
                      ELSE effects
        /\ creatingEffects' = releaseLock(creatingEffects, lockKey(a.tok, a.type), ok)
        /\ adding' = RemoveAt(adding, i)
        /\ lastEvent' = [Quiet("added") EXCEPT !.tok = a.tok, !.changes = {a.type}]
  /\ UNCHANGED <<now, settings, scene, lights, tiles, tokens, lightLevel,
                 processingCircuitBreaker, pendingOperations, processingActive,
                 animationFrames, drains, clears, lightingTimeout, refreshTimeoutId,
                 processingUpdate, passes, resolving, initializing, timers,
                 lastPass, probe, triggers, toggles>>

\* determineLightLevel is called for a token, with or without a faulty step;
\* a call that reaches _processLightSources sorts its copy of the sources.
Classify(t, fault) ==
  /\ probe' = [tok |-> t, fault |-> fault, thrown |-> TryResolve(t, fault).thrown,
               out |-> determineLightLevel(t, fault)]
  /\ lights' = IF fault = "none" THEN childrenAfterSort(lights) ELSE lights
  /\ UNCHANGED <<now, settings, scene, tiles, tokens, lightLevel, effects,
                 processingCircuitBreaker, pendingOperations, processingActive,
                 animationFrames, drains, clears, lightingTimeout, refreshTimeoutId,
                 processingUpdate, passes, resolving, initializing, timers,
                 lastPass,
                 failures, lastEvent, triggers, toggles,
                 creatingEffects, adding>>

\* The callbacks the module leaves with the host, timers apart; outcomes is
\* what a document write may answer (TRUE: stored, FALSE: rejected).
Callbacks(outcomes) ==
  \/ \E t \in Tokens, ok \in outcomes : InitializeSettles(t, ok)
  \/ ResolutionResumes
  \/ PassCompletes
  \/ AnimationFrame
  \/ \E i \in DOMAIN drains, ok \in outcomes : WriteSettles(i, ok)

Timeouts == \E tm \in timers : TimerFires(tm)

\* What users do to the scene: tokens are moved, the torchbearer's torch and
\* the lamp are switched.
Users ==
  \/ \E t \in Tokens, x \in Positions : UpdateToken(t, {"x"}, x)
  \/ UpdateToken(Torchbearer, {"light.dim"}, tokens[Torchbearer].x)
  \/ UpdateAmbientLight

\* The scheduler's time scale: steps below and up to the cooldown and the
\* delay.  The canvas is visible, so an animation frame that is due runs
\* before the clock moves on; every write is stored.
Next ==
  \/ Timeouts
  \/ Callbacks({TRUE})
  \/ Users
  \/ animationFrames = 0 /\ \E d \in TickSteps : Tick(d, MaxTime)
Spec == Init /\ [][Next]_vars

\* The queue's time scale: steps up to and past the maximum operation age,
\* animation frames may wait for as long (a hidden canvas), and debouncing
\* is switched off (a delay of 0), so that no timer is ever set.  Tokens may
\* lose their hit points; every write is stored.
InitQueue == Init /\ settings.delay = 0
NextQueue ==
  \/ Callbacks({TRUE})
  \/ Users
  \/ \E t \in Tokens : UpdateHitPoints(t)
  \/ \E d \in QueueTickSteps : Tick(d, MaxQueueTime)
SpecQueue == InitQueue /\ [][NextQueue]_vars

\* The queue with document writes that may be rejected and tokens that may
\* be deleted: the first token is moved and the lamp is switched, and the
\* clock steps by the cooldown.
NextFaults ==
  \/ Callbacks(BOOLEAN)
  \/ \E x \in Positions : UpdateToken("t1", {"x"}, x)
  \/ UpdateAmbientLight
  \/ \E t \in Tokens : DeleteToken(t)
  \/ Tick(PROCESSING_COOLDOWN, MaxTime)
SpecFaults == InitQueue /\ [][NextFaults]_vars

\* The queue under a fair host: an animation frame that has been asked for
\* runs in the end, and a document write that is awaited settles in the end.
\* Both actors are initialized and debouncing is switched off; the lamp is
\* switched, writes may be rejected and a step of a drain may throw.
InitLive ==
  /\ AtRest
  /\ settings = [enable |-> TRUE, isGM |-> TRUE, addEffects |-> TRUE,
                 globalIllumination |-> FALSE, negativeLights |-> FALSE,
                 delay |-> 0]
  /\ scene = [globalLight |-> FALSE, darkness |-> 0, threshold |-> Undefined]
  /\ lights = <<Lamp>>
  /\ tiles = <<>>
  /\ tokens = [t \in Tokens |-> IF t = "t1" THEN Token(5, TRUE) ELSE Token(15, TRUE)]

NextLive ==
  \/ ResolutionResumes
  \/ PassCompletes
  \/ AnimationFrame
  \/ \E i \in DOMAIN drains, ok \in BOOLEAN : WriteSettles(i, ok)
  \/ \E i \in DOMAIN drains : DrainThrows(i)
  \/ UpdateAmbientLight
  \/ Tick(PROCESSING_COOLDOWN, MaxTime)
SpecLive ==
  /\ InitLive
  /\ [][NextLive]_vars
  /\ WF_vars(AnimationFrame)
  /\ WF_vars(\E i \in DOMAIN drains, ok \in BOOLEAN : WriteSettles(i, ok))

\* A scene of an earlier session: the first token stands in the lamp's dim
\* light and its actor carries the 'dim' marker and flag, which are stored
\* with the actor; its hit points are positive, 0 or missing.  Tokens are
\* moved, the lamp is switched, hit points change, and the clock steps by
\* the cooldown; every write is stored.
HitPoints == {10, 0, Undefined}

InitMortal ==
  /\ Idle
  /\ lightLevel = [t \in Tokens |-> IF t = "t1" THEN "dim" ELSE Unset]
  /\ effects = [t \in Tokens |-> IF t = "t1" THEN <<"dim">> ELSE <<>>]
  /\ settings = [enable |-> TRUE, isGM |-> TRUE, addEffects |-> TRUE,
                 globalIllumination |-> FALSE, negativeLights |-> FALSE,
                 delay |-> 0]
  /\ scene = [globalLight |-> FALSE, darkness |-> 0, threshold |-> Undefined]
  /\ lights = <<Lamp>>
  /\ tiles = <<>>
  /\ \E hp \in HitPoints :
       tokens = [t \in Tokens |->
                   IF t = "t1" THEN [Token(15, TRUE) EXCEPT !.hp = hp]
                   ELSE Token(5, FALSE)]

NextMortal ==
  \/ Callbacks({TRUE})
  \/ \E x \in Positions : UpdateToken("t1", {"x"}, x)
  \/ UpdateAmbientLight
  \/ \E t \in Tokens : UpdateHitPoints(t)
  \/ Tick(PROCESSING_COOLDOWN, MaxTime)
SpecMortal == InitMortal /\ [][NextMortal]_vars

\* The hooks under every mode of the module: enabled for the GM, disabled,
\* run by a player, and tracking only (no effects added).  The first token's
\* actor is not initialized yet; the second token is not on the canvas, its
\* actor was initialized in another scene.  Tokens are moved and created,
\* lights and the scene's darkness change; every write is stored.
Modes ==
  {[enable |-> TRUE, isGM |-> TRUE, addEffects |-> TRUE],
   [enable |-> FALSE, isGM |-> TRUE, addEffects |-> TRUE],
   [enable |-> TRUE, isGM |-> FALSE, addEffects |-> TRUE],
   [enable |-> TRUE, isGM |-> TRUE, addEffects |-> FALSE]}

InitHooks ==
  /\ AtRest
  /\ \E m \in Modes, d \in Delays :
       settings = [enable |-> m.enable, isGM |-> m.isGM, addEffects |-> m.addEffects,
                   globalIllumination |-> FALSE, negativeLights |-> FALSE,
                   delay |-> d]
  /\ scene = [globalLight |-> FALSE, darkness |-> 0, threshold |-> Undefined]
  /\ lights = <<Lamp>>
  /\ tiles = <<>>
  /\ tokens = [t \in Tokens |->
                 IF t = "t1" THEN Token(15, FALSE)
                 ELSE [Token(25, TRUE) EXCEPT !.present = FALSE]]

NextHooks ==
  \/ Timeouts
  \/ Callbacks({TRUE})
  \/ PassThrows
  \/ Users
  \/ \E t \in Tokens : CreateToken(t)
  \/ UpdateScene
  \/ Tick(PROCESSING_COOLDOWN, MaxTime)
SpecHooks == InitHooks /\ [][NextHooks]_vars

\* The module's switches: the first token stands in the lamp's bright or dim
\* light, and in the dim light its actor carries the 'dim' marker and flag
\* of an earlier session.  The token is moved, the lamp, the module and the
\* addEffects setting are switched, and the clock steps by the cooldown; every write is
\* stored.
InitToggle ==
  /\ Idle
  /\ \E x \in Positions :
       /\ tokens = [t \in Tokens |->
                      IF t = "t1" THEN Token(x, TRUE) ELSE Token(5, FALSE)]
       /\ lightLevel = [t \in Tokens |->
                          IF t = "t1" /\ x = 15 THEN "dim" ELSE Unset]
       /\ effects = [t \in Tokens |->
                       IF t = "t1" /\ x = 15 THEN <<"dim">> ELSE <<>>]
  /\ \E d \in Delays :
       settings = [enable |-> TRUE, isGM |-> TRUE, addEffects |-> TRUE,
                   globalIllumination |-> FALSE, negativeLights |-> FALSE,
                   delay |-> d]
  /\ scene = [globalLight |-> FALSE, darkness |-> 0, threshold |-> Undefined]
  /\ lights = <<Lamp>>
  /\ tiles = <<>>

NextToggle ==
  \/ Timeouts
  \/ Callbacks({TRUE})
  \/ \E x \in Positions : UpdateToken("t1", {"x"}, x)
  \/ UpdateAmbientLight
  \/ \E enabled \in BOOLEAN : ToggleModule(enabled)
  \/ \E value \in BOOLEAN : SetAddEffects(value)
  \/ \E i \in DOMAIN clears : ClearSettles(i)
  \/ Tick(PROCESSING_COOLDOWN, MaxTime)
SpecToggle == InitToggle /\ [][NextToggle]_vars

\* The effect creation lock of Effects: _addEffect is called for dark and
\* dim markers on two actors, with the addEffects setting on or off, and a
\* creation may throw.
InitLock ==
  /\ AtRest
  /\ \E value \in BOOLEAN :
       settings = [enable |-> TRUE, isGM |-> TRUE, addEffects |-> value,
                   globalIllumination |-> FALSE, negativeLights |-> FALSE,
                   delay |-> 0]
  /\ scene = [globalLight |-> FALSE, darkness |-> 0, threshold |-> Undefined]
  /\ lights = <<Lamp>>
  /\ tiles = <<>>
  /\ tokens = [t \in Tokens |-> IF t = "t1" THEN Token(5, TRUE) ELSE Token(15, TRUE)]

NextLock ==
  \/ \E t \in Tokens, effectType \in {"dark", "dim"} : AddEffect(t, effectType)
  \/ \E i \in DOMAIN adding, ok \in BOOLEAN : AddSettles(i, ok)
SpecLock == InitLock /\ [][NextLock]_vars

(***************************************************************************)
(* The resolver on its own: determineLightLevel is called in scenes drawn  *)
(* from the lamp and a light of negative luminosity, a roof tile, the      *)
(* scene's global light and the two settings the resolver reads.           *)
(***************************************************************************)
Shade == [NoLight EXCEPT !.active = TRUE, !.dim = 30, !.bright = 20, !.luminosity = -5]
Roof == [restrictsLight |-> TRUE, over |-> {"t1"}, elevation |-> 10]
FarPositions == {5, 15, 25}
Darkness == {0, 10}
Thresholds == {Undefined, 0, 5}

InitLight ==
  /\ AtRest
  /\ \E gi \in BOOLEAN, neg \in BOOLEAN :
       settings = [enable |-> TRUE, isGM |-> TRUE, addEffects |-> TRUE,
                   globalIllumination |-> gi, negativeLights |-> neg, delay |-> 0]
  /\ \E gl \in BOOLEAN, dk \in Darkness, th \in Thresholds :
       scene = [globalLight |-> gl, darkness |-> dk, threshold |-> th]
  /\ lights \in {<<>>, <<Lamp>>, <<Shade>>, <<Shade, Lamp>>}
  /\ tiles \in {<<>>, <<Roof>>}
  /\ \E x \in FarPositions :
       tokens = [t \in Tokens |-> IF t = "t1" THEN Token(x, TRUE) ELSE Token(15, TRUE)]

NextLight == \E t \in Tokens, fault \in Faults : Classify(t, fault)
SpecLight == InitLight /\ [][NextLight]_vars

(***************************************************************************)
(* The resolver among light sources: up to two ambient lights in either    *)
(* order, each with or without a wall before it, a torch on the second     *)
(* token, and the first token at the radii of the lights and between them. *)
(***************************************************************************)
Beacon == [NoLight EXCEPT !.active = TRUE, !.dim = 20, !.bright = 20, !.luminosity = 8]
Walled(source) == [source EXCEPT !.walled = TRUE]
Sources == {Lamp, Shade, Beacon, Walled(Lamp), Walled(Shade)}
Catalogs ==
  {<<>>} \cup {<<a>> : a \in Sources} \cup {<<a, b>> : a \in Sources, b \in Sources}
Radii == {5, 10, 15, 20, 25, 30, 35}

InitSources ==
  /\ AtRest
  /\ \E gi \in BOOLEAN, neg \in BOOLEAN :
       settings = [enable |-> TRUE, isGM |-> TRUE, addEffects |-> TRUE,
                   globalIllumination |-> gi, negativeLights |-> neg, delay |-> 0]
  /\ scene = [globalLight |-> TRUE, darkness |-> 0, threshold |-> Undefined]
  /\ lights \in Catalogs
  /\ tiles = <<>>
  /\ \E x \in Radii, torch \in {NoLight, Torch} :
       tokens = [t \in Tokens |->
                   IF t = "t1" THEN Token(x, TRUE)
                   ELSE [Token(15, TRUE) EXCEPT !.light = torch]]

SpecSources == InitSources /\ [][NextLight]_vars

(***************************************************************************)
(* The resolver under global illumination: the scene's global light, its   *)
(* darkness and its threshold from 0 to 1, tiles over the first token with *)
(* and without the light restriction, and the token below, level with and  *)
(* above them.                                                             *)
(***************************************************************************)
Awning == [Roof EXCEPT !.restrictsLight = FALSE]
TileSets == {<<>>, <<Roof>>, <<Awning>>, <<Awning, Roof>>}
Elevations == {0, Roof.elevation, 2 * Roof.elevation}
DarknessLevels == {0, 5, 10}
DarknessMax == {Undefined, 0, 5, 10}

InitGlobal ==
  /\ AtRest
  /\ \E gi \in BOOLEAN, neg \in BOOLEAN :
       settings = [enable |-> TRUE, isGM |-> TRUE, addEffects |-> TRUE,
                   globalIllumination |-> gi, negativeLights |-> neg, delay |-> 0]
  /\ \E gl \in BOOLEAN, dk \in DarknessLevels, th \in DarknessMax :
       scene = [globalLight |-> gl, darkness |-> dk, threshold |-> th]
  /\ lights \in {<<>>, <<Lamp>>}
  /\ tiles \in TileSets
  /\ \E e \in Elevations :
       tokens = [t \in Tokens |->
                   IF t = "t1" THEN [Token(5, TRUE) EXCEPT !.elevation = e]
                   ELSE Token(15, TRUE)]

SpecGlobal == InitGlobal /\ [][NextLight]_vars

(***************************************************************************)
(* The resolver and a directional light: the lamp at the origin with a     *)
(* cone of every width around a right angle and up to the full circle,     *)
(* turned to the eight bearings, and the first token at the eight bearings *)
(* around it, within its bright radius.                                    *)
(***************************************************************************)
Bearings == {0, 45, 90, 135, 180, 225, 270, 315}
ConeAngles == {0, 89, 90, 91, 180, 270, 359, 360}

\* the place at bearing b from the origin, as calculateLightAngle measures it
Around(b) ==
  CASE b = 0 -> [x |-> 0, y |-> 5]
    [] b = 45 -> [x |-> -4, y |-> 4]
    [] b = 90 -> [x |-> -5, y |-> 0]
    [] b = 135 -> [x |-> -4, y |-> -4]
    [] b = 180 -> [x |-> 0, y |-> -5]
    [] b = 225 -> [x |-> 4, y |-> -4]
    [] b = 270 -> [x |-> 5, y |-> 0]
    [] OTHER -> [x |-> 4, y |-> 4]

InitCone ==
  /\ AtRest
  /\ settings = [enable |-> TRUE, isGM |-> TRUE, addEffects |-> TRUE,
                 globalIllumination |-> FALSE, negativeLights |-> FALSE, delay |-> 0]
  /\ scene = [globalLight |-> FALSE, darkness |-> 0, threshold |-> Undefined]
  /\ \E a \in ConeAngles, r \in Bearings :
       lights = <<[Lamp EXCEPT !.angle = a, !.rotation = r]>>
  /\ tiles = <<>>
  /\ \E b \in Bearings :
       tokens = [t \in Tokens |->
                   IF t = "t1"
                   THEN [Token(Around(b).x, TRUE) EXCEPT !.y = Around(b).y]
                   ELSE Token(15, TRUE)]

SpecCone == InitCone /\ [][NextLight]_vars

(***************************************************************************)
(* Properties                                                              *)
(***************************************************************************)
Levels == {"bright", "dim", "dark"}

\* C1: determineLightLevel answers 'bright', 'dim' or 'dark' and nothing else,
\* and when a step of the resolution throws, the answer is 'bright'.
LightLevelTotal ==
  probe.tok # "" =>
    /\ probe.out \in Levels
    /\ probe.thrown => probe.out = "bright"

\* A step throws in a scene where the resolver would have answered 'dark'.
LightLevelTotalSeen ==
  /\ probe.thrown
  /\ probe.out = "bright"
  /\ determineLightLevel(probe.tok, "none") = "dark"

OpsOf(ops, t) == {i \in DOMAIN ops : ops[i].tokenId = t}
TimersOf(pending, owner) == {tm \in pending : tm.owner = owner}

\* C2: the pending queue holds at most one operation per actor, and after
\* effectQueue.add the actor's one operation carries the level just resolved
\* and the time of the add.
QueueOnePerActor ==
  \A t \in Tokens :
    /\ Cardinality(OpsOf(pendingOperations, t)) <= 1
    /\ lastEvent.enq[t] # "none" =>
          \E i \in OpsOf(pendingOperations, t) :
            /\ pendingOperations[i].timestamp = now
            /\ pendingOperations[i].lightLevel \in
                 {determineLightLevel(t, "none"), "clear"}

\* An add has replaced the pending operation of its actor.
QueueOnePerActorSeen ==
  \E t \in Tokens :
    /\ lastEvent.enq[t] = "replaced"
    /\ \E i \in OpsOf(pendingOperations, t) : pendingOperations[i].timestamp > StartTime

\* C3: when a drain starts, the operations that proceed are exactly those
\* whose age does not exceed MAX_OPERATION_AGE.
StaleExactlyOlder ==
  [][(lastEvent'.type = "animationFrame" /\ processQueueGuard(Cur)) =>
       \A i \in DOMAIN pendingOperations :
         LET op == pendingOperations[i]
             proceeds == \E j \in DOMAIN drains' :
                           \E n \in DOMAIN drains'[j].ops : drains'[j].ops[n] = op
         IN proceeds <=> now - op.timestamp <= MAX_OPERATION_AGE]_vars

\* C4: two accepted passes of one token begin at least PROCESSING_COOLDOWN
\* apart, and a call that comes sooner after an accepted pass is refused.
CooldownBetweenPasses ==
  [][\A t \in Tokens :
       lastPass[t] # Undefined =>
         /\ lastEvent'.calls[t] = "accepted" =>
               now' - lastPass[t] >= PROCESSING_COOLDOWN
         /\ (lastEvent'.calls[t] # "none" /\ now' - lastPass[t] < PROCESSING_COOLDOWN) =>
               lastEvent'.calls[t] = "blocked"]_vars

\* A call for a token is refused less than the cooldown after its last pass.
CooldownBetweenPassesSeen ==
  \E t \in Tokens :
    /\ lastEvent.calls[t] = "blocked"
    /\ lastPass[t] # Undefined
    /\ now - lastPass[t] > 0
    /\ now - lastPass[t] < PROCESSING_COOLDOWN

\* C5: a drain never deletes or creates a marker for an actor whose stored
\* level already is the operation's level and whose marker is in place.
IdempotentReconciliation ==
  \A i \in DOMAIN drains :
    LET op == Head(drains[i].ops)
    IN ~ /\ drains[i].stage = "clear"
         /\ op.lightLevel \in {"dim", "dark"}
         /\ lightLevel[op.tokenId] = op.lightLevel
         /\ effects[op.tokenId] = <<op.lightLevel>>
         /\ failures = 0

\* C6: at most one drain is in flight, and it is exactly while
\* processingActive is set; no actor has two resolutions in flight.
OneInFlight ==
  /\ Len(drains) <= 1
  /\ processingActive <=> drains # <<>>
  /\ \A t \in Tokens :
       Cardinality({i \in DOMAIN resolving : resolving[i].tok = t}) <= 1

\* An animation frame ran during a drain, with operations pending, and
\* started nothing.
OneInFlightSeen ==
  /\ lastEvent.type = "animationFrame"
  /\ processingActive
  /\ Len(drains) = 1
  /\ pendingOperations # <<>>

\* C7: markers and the lightLevel flag change only when a write of a drain
\* settles, and a drain starts only in an animation frame.
WritesOnlyInDrain ==
  [][/\ (effects' # effects \/ lightLevel' # lightLevel) =>
          (lastEvent'.type = "write" /\ drains # <<>>)
     /\ (Len(drains') > Len(drains) \/ (processingActive' /\ ~processingActive)) =>
          lastEvent'.type = "animationFrame"]_vars

\* A resolution has queued an operation and left the documents alone.
WritesOnlyInDrainSeen ==
  /\ lastEvent.type = "resolved"
  /\ \E t \in Tokens : lastEvent.enq[t] = "new"
  /\ ~processingActive
  /\ animationFrames > 0

\* C8: the events the module's own writes produce, updateToken events with
\* no movement key and no light key among them, schedule nothing: no timer,
\* no pass, no resolution, no initialization, no queued operation.
NoFeedback ==
  [][(lastEvent'.type = "write"
        /\ lastEvent'.changes \cap (movementKeys \cup lightKeys) = {}) =>
       /\ timers' = timers
       /\ lightingTimeout' = lightingTimeout
       /\ refreshTimeoutId' = refreshTimeoutId
       /\ processingUpdate' = processingUpdate
       /\ resolving' = resolving
       /\ initializing' = initializing
       /\ processingCircuitBreaker' = processingCircuitBreaker
       /\ pendingOperations' = pendingOperations
       /\ \A t \in Tokens : lastEvent'.calls[t] = "none"]_vars

\* The flag write of a drain has settled and its updateToken hook has run.
NoFeedbackSeen ==
  /\ lastEvent.type = "write"
  /\ lastEvent.changes = {"delta"}
  /\ lightLevel[lastEvent.tok] \in Levels
  /\ drains = <<>>

\* C9: a scene-wide trigger (an ambient light changed, a token's light
\* changed) that arrives while a scene pass is in flight leaves a scene pass
\* scheduled to run after it.
SceneTriggerKept ==
  [][(/\ processingUpdate
      /\ \/ lastEvent'.type = "updateAmbientLight"
         \/ /\ lastEvent'.type = "updateToken"
            /\ hasLightChange(lastEvent'.changes)
            /\ ~hasMovement(lastEvent'.changes)) =>
       TimersOf(timers', "scene") # {}]_vars

Remaining(ds) == IF ds = <<>> THEN <<>> ELSE ds[1].ops

\* `left` is what stays of `rest` when the entries at its head whose token is
\* gone or invalid are dropped
SkipsTo(rest, left) ==
  /\ Len(left) <= Len(rest)
  /\ left = SubSeq(rest, Len(rest) - Len(left) + 1, Len(rest))
  /\ \A i \in 1..(Len(rest) - Len(left)) : ~Reconcilable(tokens, rest[i].tokenId)
  /\ left # <<>> => Reconcilable(tokens, Head(left).tokenId)

\* C11: in a drain every entry of the snapshot that is not stale is handled
\* on its own.  An entry whose token is gone from the canvas or is not valid
\* is passed over with no write; a write that is rejected, for a marker or
\* for the flag, ends nothing: the entry goes on to its next write and the
\* entries behind it are still handled.  Only the actor of the entry in hand
\* is written, and processingActive is reset exactly when no entry is left.
DrainEntriesIndependent ==
  [][/\ (lastEvent'.type = "animationFrame" /\ processQueueGuard(Cur)) =>
          /\ SkipsTo(validOperations(pendingOperations, now), Remaining(drains'))
          /\ processingActive' <=> Remaining(drains') # <<>>
     /\ lastEvent'.type = "write" =>
          LET d == drains[1]
              t == Head(d.ops).tokenId
          IN /\ IF d.stage = "flag"
                THEN SkipsTo(Tail(d.ops), Remaining(drains'))
                ELSE /\ Remaining(drains') = d.ops
                     /\ drains'[1].stage = (IF d.stage = "clear" THEN AfterClear(d.ops).stage
                                            ELSE "flag")
             /\ \A u \in Tokens \ {t} :
                  effects'[u] = effects[u] /\ lightLevel'[u] = lightLevel[u]
             /\ processingActive' <=> Remaining(drains') # <<>>]_vars

\* The first token was deleted with its operation in the snapshot and was
\* passed over; the marker of the second was rejected, its flag was written
\* all the same, and the drain has ended.
DrainEntriesIndependentSeen ==
  /\ lastEvent.type = "write"
  /\ lastEvent.tok = "t2"
  /\ ~tokens["t1"].present
  /\ lastPass["t1"] # Undefined
  /\ lightLevel["t1"] = Unset
  /\ effects["t1"] = <<>>
  /\ failures = 1
  /\ lightLevel["t2"] = "dark"
  /\ effects["t2"] = <<>>
  /\ resolving = <<>>
  /\ pendingOperations = <<>>
  /\ drains = <<>>
  /\ ~processingActive

\* determineLightLevel has answered for token t without a faulty step
Resolved(t) == probe.tok = t /\ probe.fault = "none"

\* the ambient light s stands at the origin of a flat scene and shines all
\* around, with no wall before it
Plain(s) ==
  /\ s.active /\ ~s.walled /\ s.angle >= 360
  /\ s.x = 0 /\ s.y = 0 /\ s.elevation = 0

\* C12: with global illumination inactive and one active, unoccluded,
\* all-round positive source of bright radius b > 0 and dim radius m >= b, a
\* token at distance x is 'bright' iff x <= b, 'dim' iff b < x <= m and
\* 'dark' iff x > m; both radii belong to the brighter side.
SingleSourceBands ==
  \A t \in Tokens :
    (/\ Resolved(t)
     /\ ~settings.globalIllumination
     /\ Len(lights) = 1
     /\ Plain(lights[1])
     /\ lights[1].luminosity >= 0
     /\ lights[1].bright > 0
     /\ lights[1].dim >= lights[1].bright
     /\ \A u \in Tokens : ~tokens[u].light.active
     /\ tokens[t].y = 0 /\ tokens[t].elevation = 0) =>
      LET x == Abs(tokens[t].x)
          b == lights[1].bright
          m == lights[1].dim
      IN /\ probe.out = "bright" <=> x <= b
         /\ probe.out = "dim" <=> (b < x /\ x <= m)
         /\ probe.out = "dark" <=> x > m

\* A token that stands on the dim radius of the lamp is in dim light.
SingleSourceBandsSeen ==
  /\ Resolved("t1")
  /\ ~settings.globalIllumination
  /\ lights = <<Lamp>>
  /\ ~tokens["t2"].light.active
  /\ tokens["t1"].x = Lamp.dim
  /\ probe.out = "dim"

\* the source is applicable to the token (active, in its cone, no wall
\* between them) and the token is within `radius` of it
Reaches(token, source, radius) ==
  /\ source.active
  /\ _isTokenInLightAngle(token, source)
  /\ ~hasWallCollision(token, source)
  /\ radius > 0
  /\ DistanceWithin(calculate3DDistanceSq(token, source), radius)

\* C13: with negative lights supported, a token within the bright radius of
\* an applicable positive source (luminosity >= 0) and within the bright
\* radius of an applicable negative source (luminosity < 0) is 'dark', in
\* whichever order the two stand in the scene's collections.
NegativePrecedence ==
  \A t \in Tokens :
    LET catalog == LightSources(lights)
    IN (/\ Resolved(t)
        /\ settings.negativeLights
        /\ \E i \in DOMAIN catalog :
             catalog[i].luminosity >= 0 /\ Reaches(tokens[t], catalog[i], catalog[i].bright)
        /\ \E j \in DOMAIN catalog :
             catalog[j].luminosity < 0 /\ Reaches(tokens[t], catalog[j], catalog[j].bright)) =>
         probe.out = "dark"

\* The negative light stands before the lamp in the scene's collection, the
\* token is on the lamp's bright radius, and the answer is 'dark'.
NegativePrecedenceSeen ==
  /\ Resolved("t1")
  /\ settings.negativeLights
  /\ ~settings.globalIllumination
  /\ lights = <<Shade, Lamp>>
  /\ tokens["t1"].x = Lamp.bright
  /\ probe.out = "dark"

\* C14: when global illumination is active for a token, no positive source
\* changes the answer.  Without support for negative lights the answer is
\* 'bright' whatever the sources are; with it, the answer is 'dark' if an
\* applicable negative source has the token within its bright radius, 'dim'
\* if one has it within its dim radius only, and 'bright' otherwise.
GlobalIlluminationAsymmetry ==
  \A t \in Tokens :
    LET catalog == LightSources(lights)
        negative == {j \in DOMAIN catalog : catalog[j].luminosity < 0}
        darkens == \E j \in negative : Reaches(tokens[t], catalog[j], catalog[j].bright)
        dims == \E j \in negative : Reaches(tokens[t], catalog[j], catalog[j].dim)
    IN (/\ Resolved(t)
        /\ settings.globalIllumination
        /\ _checkGlobalIllumination(t)) =>
         probe.out = IF ~settings.negativeLights THEN "bright"
                     ELSE IF darkens THEN "dark"
                     ELSE IF dims THEN "dim"
                     ELSE "bright"

\* Under global illumination a token stands on the dim radius of the torch
\* and within the dim radius of the negative light only: the answer is 'dim'.
GlobalIlluminationAsymmetrySeen ==
  /\ Resolved("t1")
  /\ settings.globalIllumination
  /\ _checkGlobalIllumination("t1")
  /\ settings.negativeLights
  /\ lights = <<Shade>>
  /\ tokens["t2"].light = Torch
  /\ tokens["t1"].x = tokens["t2"].x + Torch.dim
  /\ probe.out = "dim"

\* canvas.scene.environment.globalLight.darkness.max ?? 1
DarknessThreshold == IF scene.threshold = Undefined THEN 10 ELSE scene.threshold

\* C15: the level starts at BRIGHT exactly when the module's global
\* illumination setting is on, the scene's global light is enabled and the
\* scene darkness is at most the scene's threshold, for every darkness and
\* threshold from 0 to 1; otherwise it starts at DARK.  In a scene without
\* light sources and tiles the answer is the level the resolver started from.
GlobalIlluminationThreshold ==
  \A t \in Tokens :
    (Resolved(t) /\ lights = <<>> /\ tiles = <<>>) =>
      probe.out = IF /\ settings.globalIllumination
                     /\ scene.globalLight
                     /\ scene.darkness <= DarknessThreshold
                  THEN "bright" ELSE "dark"

\* The same for every threshold but 0.
GlobalIlluminationAboveZero ==
  \A t \in Tokens :
    (Resolved(t) /\ lights = <<>> /\ tiles = <<>> /\ DarknessThreshold # 0) =>
      probe.out = IF /\ settings.globalIllumination
                     /\ scene.globalLight
                     /\ scene.darkness <= DarknessThreshold
                  THEN "bright" ELSE "dark"

\* global illumination is on in the settings and in the scene, and the scene
\* is no darker than its threshold
GlobalLightOn ==
  /\ settings.globalIllumination
  /\ scene.globalLight
  /\ DarknessThreshold # 0
  /\ scene.darkness <= DarknessThreshold

\* a tile over the token restricts light and lies strictly above the token
Vetoed(t) ==
  \E i \in DOMAIN tiles :
    /\ tiles[i].restrictsLight
    /\ t \in tiles[i].over
    /\ tiles[i].elevation > tokens[t].elevation

\* C16: where global illumination would be active, a token under a
\* light-restricting tile that lies strictly above it has no global
\* illumination: its level starts from DARK, so that the answer is what the
\* light sources alone give and 'dark' when there is none.  A tile level with
\* the token or below it, or a tile without the restriction, vetoes nothing:
\* the answer stays 'bright'.
RegionVeto ==
  \A t \in Tokens :
    (Resolved(t) /\ GlobalLightOn) =>
      IF Vetoed(t)
      THEN /\ probe.out = _convertLightLevelToText(
                             ProcessLightSources(t, lights, DARK, FALSE))
           /\ lights = <<>> => probe.out = "dark"
      ELSE probe.out = "bright"

\* Global illumination is on, the darkness equals the threshold, and the
\* token under the roof, with no light source in the scene, is in the dark.
RegionVetoSeen ==
  /\ Resolved("t1")
  /\ GlobalLightOn
  /\ scene.darkness = 5
  /\ scene.threshold = 5
  /\ tiles = <<Roof>>
  /\ tokens["t1"].elevation < Roof.elevation
  /\ lights = <<>>
  /\ probe.out = "dark"

\* C17: a source with a wall between it and the token contributes nothing:
\* the answer is the answer of the same scene without that source, so the
\* sources without a wall apply as they would without it.
BinaryOcclusion ==
  \A t \in Tokens :
    Resolved(t) =>
      \A i \in DOMAIN lights :
        lights[i].walled =>
          probe.out = _convertLightLevelToText(
                        TryResolveIn(t, "none", RemoveAt(lights, i)).level)

\* A wall stands before the lamp whose bright light would reach the token;
\* the torch on the other token still gives it dim light.
BinaryOcclusionSeen ==
  /\ Resolved("t1")
  /\ ~settings.globalIllumination
  /\ lights = <<Walled(Lamp)>>
  /\ tokens["t1"].x < Lamp.bright
  /\ tokens["t2"].light = Torch
  /\ probe.out = "dim"

Min(a, b) == IF a <= b THEN a ELSE b

MarkersMatch(t, level) ==
  effects[t] = IF level \in {"dark", "dim"} /\ settings.addEffects
               THEN <<level>> ELSE <<>>

\* no operation of the token is queued or in a drain
NothingPending(t) ==
  /\ ~HasOp(pendingOperations, t)
  /\ \A i \in DOMAIN drains : ~HasOp(drains[i].ops, t)

\* C19: after a marker write has been rejected, an accepted pass of a living
\* token that resolves a level the actor's markers do not match, with nothing
\* pending for the token, enqueues a reconciliation, so that the markers
\* come to match the level once the writes succeed.
WriteFailuresSelfCorrect ==
  [][\A t \in Tokens :
       (/\ lastEvent'.type = "resolved"
        /\ lastEvent'.tok = t
        /\ Head(resolving).alive
        /\ failures > 0
        /\ NothingPending(t)
        /\ ~MarkersMatch(t, determineLightLevel(t, "none"))) =>
         lastEvent'.enq[t] # "none"]_vars

\* C20: a pass for a token without hit points above 0 (0 or less, or no hit
\* point data) is marked as such when it is accepted, resolves no level and
\* enqueues 'clear'; when the flag write of a 'clear' operation is stored,
\* the actor carries no marker of the module and no lightLevel flag.
LivingTokensOnly ==
  [][/\ \A i \in (Len(resolving) + 1)..Len(resolving') :
          resolving'[i].alive <=>
            (tokens'[resolving'[i].tok].hp # Undefined /\ tokens'[resolving'[i].tok].hp > 0)
     /\ \A t \in Tokens :
          /\ (/\ lastEvent'.type = "resolved"
              /\ lastEvent'.tok = t
              /\ ~Head(resolving).alive) =>
                /\ lastEvent'.enq[t] # "none"
                /\ \E i \in OpsOf(pendingOperations', t) :
                     pendingOperations'[i].lightLevel = "clear"
          /\ (/\ lastEvent'.type = "write"
              /\ lastEvent'.tok = t
              /\ Head(drains[1].ops).lightLevel = "clear"
              /\ drains[1].stage = "flag"
              /\ failures' = failures) =>
                /\ effects'[t] = <<>>
                /\ lightLevel'[t] = Unset]_vars

\* The actor without hit point data carried the 'dim' marker; its token was
\* moved, and the drain of its 'clear' operation has left it without marker
\* and without flag.
LivingTokensOnlySeen ==
  /\ lastEvent.type = "write"
  /\ lastEvent.tok = "t1"
  /\ tokens["t1"].hp = Undefined
  /\ tokens["t1"].x = 5
  /\ effects["t1"] = <<>>
  /\ lightLevel["t1"] = Unset
  /\ drains = <<>>
  /\ ~processingActive

\* C21: while the effect-creation setting is off, no reconciliation creates
\* a marker (no drain asks for one and no actor gains one), and the flag
\* write of a reconciliation still records the level in the actor's
\* lightLevel flag.
TrackingOnly ==
  [][~settings.addEffects =>
       /\ \A t \in Tokens : Len(effects'[t]) <= Len(effects[t])
       /\ \A i \in DOMAIN drains' : drains'[i].stage # "add"
       /\ (lastEvent'.type = "write" /\ drains[1].stage = "flag"
              /\ Head(drains[1].ops).lightLevel # "clear") =>
            lightLevel'[lastEvent'.tok] = Head(drains[1].ops).lightLevel]_vars

\* With effects off a token in the lamp's dim light is flagged 'dim' and
\* carries no marker.
TrackingOnlySeen ==
  /\ ~settings.addEffects
  /\ lastEvent.type = "write"
  /\ lastEvent.tok = "t1"
  /\ lightLevel["t1"] = "dim"
  /\ determineLightLevel("t1", "none") = "dim"
  /\ effects["t1"] = <<>>
  /\ drains = <<>>

\* nothing of the module is scheduled, suspended or queued: without a further
\* trigger only the clock moves
Quiescent ==
  /\ timers = {}
  /\ resolving = <<>>
  /\ \A t \in Tokens : initializing[t] = 0
  /\ ~processingUpdate
  /\ pendingOperations = <<>>
  /\ animationFrames = 0
  /\ drains = <<>>
  /\ clears = <<>>

\* C22: once the triggers have stopped and the module has nothing left to
\* do, the lightLevel flag of every valid living token that has been through
\* a pass is the resolver's classification of the token in the scene as it
\* is.
EventuallyConsistent ==
  Quiescent =>
    \A t \in Tokens :
      (/\ tokens[t].present
       /\ isValidToken(tokens, t)
       /\ hasValidHitPoints(tokens, t)
       /\ lastPass[t] # Undefined) =>
        lightLevel[t] = determineLightLevel(t, "none")

Triggers == {"createToken", "updateToken", "updateAmbientLight", "updateScene"}

\* C23: while the module-enabled setting is off, or the user is not the GM,
\* no trigger event (a token created or updated, an ambient light changed,
\* the scene updated) sets or clears a timer, starts a pass or a resolution
\* or an initialization, touches the circuit breaker, enqueues an operation
\* or asks for an animation frame.
DisabledIsInert ==
  [][(lastEvent'.type \in Triggers /\ (~settings.enable \/ ~settings.isGM)) =>
       /\ timers' = timers
       /\ lightingTimeout' = lightingTimeout
       /\ refreshTimeoutId' = refreshTimeoutId
       /\ processingUpdate' = processingUpdate
       /\ resolving' = resolving
       /\ initializing' = initializing
       /\ processingCircuitBreaker' = processingCircuitBreaker
       /\ pendingOperations' = pendingOperations
       /\ animationFrames' = animationFrames
       /\ \A t \in Tokens : lastEvent'.calls[t] = "none" /\ lastEvent'.enq[t] = "none"]_vars

\* The module is disabled; a token of an initialized actor has been created
\* and moved, and nothing is scheduled.
DisabledIsInertSeen ==
  /\ ~settings.enable
  /\ settings.isGM
  /\ lastEvent.type = "updateToken"
  /\ lastEvent.tok = "t2"
  /\ hasMovement(lastEvent.changes)
  /\ isValidToken(tokens, "t2")
  /\ triggers = 2
  /\ Quiescent

Disabled == settings.isGM /\ ~settings.enable /\ clears = <<>>

\* C24: once toggleModule(false) has completed, and for as long as the
\* module stays disabled, no valid token carries a module marker, whatever
\* timers or queue entries were pending when the module was disabled.
DisabledStaysClear ==
  Disabled =>
    \A t \in Tokens :
      tokens[t].present /\ isValidToken(tokens, t) => effects[t] = <<>>

\* toggleModule(false) and then toggleModule(true) have been called: the
\* module starts enabled and each call switches the setting.
Reenabled == toggles >= 2 /\ settings.enable /\ settings.isGM

\* C25: after toggleModule(false) followed by toggleModule(true), once
\* nothing is scheduled or queued any more, every valid living token carries
\* the marker of its current classification: a dark marker if dark, a dim
\* marker if dim, none if bright.
ReenablingRestores ==
  (Reenabled /\ Quiescent /\ settings.addEffects) =>
    \A t \in Tokens :
      (tokens[t].present /\ isValidToken(tokens, t)
         /\ hasValidHitPoints(tokens, t)) =>
        MarkersMatch(t, determineLightLevel(t, "none"))

\* C26: when the addEffects setting has been changed to off by the GM, no
\* actor of a token of the scene carries a lighting marker once the handler
\* and the queue have finished.
TrackingOnlyClears ==
  (settings.isGM /\ ~settings.addEffects /\ Quiescent) =>
    \A t \in Tokens : tokens[t].present => effects[t] = <<>>

IsSuffix(a, b) == \E n \in 0..Len(b) : a = SubSeq(b, n + 1, Len(b))

\* C27: processQueue works on a snapshot taken when the drain starts and
\* clears the pending map; a running drain never takes up an operation
\* enqueued meanwhile, which waits in the map for a later drain; and an
\* operation in a drain is never newer than a pending one of the same token,
\* so that a token's operations are applied in the order they were enqueued.
DrainOrdering ==
  [][/\ (lastEvent'.type = "animationFrame" /\ processQueueGuard(Cur)) =>
          /\ pendingOperations' = <<>>
          /\ IsSuffix(Remaining(drains'), validOperations(pendingOperations, now))
     /\ (drains # <<>> /\ drains' # <<>>) =>
          IsSuffix(Remaining(drains'), Remaining(drains))
     /\ \A i \in DOMAIN Remaining(drains'), j \in DOMAIN pendingOperations' :
          Remaining(drains')[i].tokenId = pendingOperations'[j].tokenId =>
            Remaining(drains')[i].timestamp <= pendingOperations'[j].timestamp]_vars

\* A drain has just stored a token's level and ended, while a newer
\* operation of the same token, enqueued during the drain, waits in the map
\* for the animation frame the drain has asked for.
DrainOrderingSeen ==
  /\ lastEvent.type = "write"
  /\ drains = <<>>
  /\ animationFrames > 0
  /\ \E j \in DOMAIN pendingOperations :
       /\ pendingOperations[j].tokenId = lastEvent.tok
       /\ pendingOperations[j].lightLevel # lightLevel[lastEvent.tok]
       /\ lightLevel[lastEvent.tok] # Unset

\* C28: if animation frames that are asked for run in the end and awaited
\* writes settle in the end, the pending map is emptied again after every
\* enqueue, each operation being taken into a snapshot or replaced on the
\* way, and processingActive is false again after every drain, a drain in
\* which a step throws included.
QueueLiveness ==
  /\ (pendingOperations # <<>>) ~> (pendingOperations = <<>>)
  /\ processingActive ~> ~processingActive

\* A step of a drain has thrown while an operation enqueued during the drain
\* was pending: the drain is over and the next one is asked for.
QueueLivenessSeen ==
  /\ lastEvent.type = "thrown"
  /\ ~processingActive
  /\ drains = <<>>
  /\ pendingOperations # <<>>
  /\ animationFrames > 0

Range(seq) == {seq[i] : i \in DOMAIN seq}

\* the markers an actor carries after a reconciliation to this level
MarkersOf(level) == IF level \in {"dark", "dim"} THEN <<level>> ELSE <<>>

\* a write of a drain settles for the token; the drain awaited it at `stage`
Settles(t, stage) ==
  /\ lastEvent'.type = "write"
  /\ lastEvent'.tok = t
  /\ drains[1].stage = stage

\* C29 as stated: a reconciliation adds a marker only to an actor whose
\* module markers are gone, and only the marker of a dim or dark level; when
\* it stores the flag, the actor carries exactly the marker of the level
\* (none for bright and clear); and no actor carries a dim and a dark marker
\* together.
ClearBeforeApply ==
  [][\A t \in Tokens :
       /\ Len(effects'[t]) > Len(effects[t]) =>
            /\ Settles(t, "add")
            /\ effects[t] = <<>>
            /\ effects'[t] = MarkersOf(Head(Remaining(drains)).lightLevel)
       /\ Settles(t, "flag") =>
            effects'[t] = MarkersOf(Head(Remaining(drains)).lightLevel)
       /\ ~({"dim", "dark"} \subseteq Range(effects'[t]))]_vars

\* C29: a reconciliation adds a marker only to an actor whose module markers
\* are gone, and only the marker of a dim or dark level; when it stores the
\* flag, the actor carries exactly the marker of the level if the level is
\* dim or dark and the addEffects setting is on, and none otherwise; and no
\* actor carries a dim and a dark marker together.
ClearBeforeApplyEnabled ==
  [][\A t \in Tokens :
       /\ Len(effects'[t]) > Len(effects[t]) =>
            /\ Settles(t, "add")
            /\ effects[t] = <<>>
            /\ effects'[t] = MarkersOf(Head(Remaining(drains)).lightLevel)
       /\ Settles(t, "flag") =>
            effects'[t] = IF settings.addEffects
                          THEN MarkersOf(Head(Remaining(drains)).lightLevel)
                          ELSE <<>>
       /\ ~({"dim", "dark"} \subseteq Range(effects'[t]))]_vars

\* In the middle of a reconciliation from dim to dark: the dim marker is
\* gone, the dark one is being created, the flag still says dim.
ClearBeforeApplyEnabledSeen ==
  /\ settings.addEffects
  /\ drains # <<>>
  /\ drains[1].stage = "add"
  /\ Head(drains[1].ops).tokenId = "t1"
  /\ Head(drains[1].ops).lightLevel = "dark"
  /\ lightLevel["t1"] = "dim"
  /\ effects["t1"] = <<>>

\* C30: with the addEffects setting on, whenever the queue is empty and no
\* drain is in flight, an actor whose lightLevel flag is 'dark' carries
\* exactly one dark marker, one whose flag is 'dim' exactly one dim marker,
\* and one whose flag is 'bright' or absent no module marker.
RecordMarkerConsistency ==
  (settings.addEffects /\ pendingOperations = <<>> /\ drains = <<>>
     /\ ~processingActive) =>
    \A t \in Tokens :
      effects[t] = MarkersOf(IF lightLevel[t] = Unset THEN "bright" ELSE lightLevel[t])

\* C31: a resolution of a living token that finds the computed level equal
\* to the stored one leaves no pending operation of the token with another
\* level, so that the stored level is the last one resolved once the queue
\* has drained.
LastResolutionWins ==
  [][\A t \in Tokens :
       (/\ lastEvent'.type = "resolved"
        /\ lastEvent'.tok = t
        /\ Head(resolving).alive
        /\ determineLightLevel(t, "none") = lightLevel[t]) =>
         \A j \in DOMAIN pendingOperations' :
           pendingOperations'[j].tokenId = t =>
             pendingOperations'[j].lightLevel = lightLevel[t]]_vars

\* the drain in flight awaits the creation of a marker on the token's actor
Creating(ds, t) ==
  ds # <<>> /\ ds[1].stage = "add" /\ Head(ds[1].ops).tokenId = t

\* C32: whenever a drain goes on to create a marker on a token's actor, the
\* token is on the canvas, is a valid initialized token and has positive hit
\* points at that moment.
AppliedOnlyIfStillValid ==
  [][\A t \in Tokens :
       (~Creating(drains, t) /\ Creating(drains', t)) =>
         /\ tokens'[t].present
         /\ isValidToken(tokens', t)
         /\ hasValidHitPoints(tokens', t)]_vars

\* C33: a resolution of a living token whose actor has no lightLevel flag
\* and whose computed level is 'bright' enqueues nothing: the absent flag is
\* read as 'bright'.
AbsentIsBright ==
  [][\A t \in Tokens :
       (/\ lastEvent'.type = "resolved"
        /\ lastEvent'.tok = t
        /\ Head(resolving).alive
        /\ lightLevel[t] = Unset
        /\ determineLightLevel(t, "none") = "bright") =>
         /\ lastEvent'.enq[t] = "none"
         /\ pendingOperations' = pendingOperations]_vars

\* C34: determineLightLevel leaves the actors' lightLevel flags and markers,
\* the pending operations, the circuit breaker, and the scene's light
\* sources and tokens, their order included, as they were.
ResolutionIsPure ==
  [][probe' # probe =>
       /\ lightLevel' = lightLevel
       /\ effects' = effects
       /\ pendingOperations' = pendingOperations
       /\ processingCircuitBreaker' = processingCircuitBreaker
       /\ lights' = lights
       /\ tokens' = tokens]_vars

\* The level of a token has been resolved in a scene whose ambient lights
\* are not in the order of their luminosity.
ResolutionIsPureSeen ==
  /\ Resolved("t1")
  /\ Len(lights) >= 2
  /\ SortByLuminosity(lights) # lights

MaxOf(S) == CHOOSE m \in S : \A x \in S : x <= m

Reverse(seq) == [i \in DOMAIN seq |-> seq[Len(seq) + 1 - i]]

\* C35: without support for negative lights the level never falls along the
\* iteration over the sources, the answer is the maximum of the starting
\* level and of what each source gives on its own, whatever the sign of its
\* luminosity, and it is the same in every order of the catalog.
PositiveOnlyMonotone ==
  \A t \in Tokens :
    (Resolved(t) /\ ~settings.negativeLights) =>
      LET gi == settings.globalIllumination /\ _checkGlobalIllumination(t)
          start == IF gi THEN BRIGHT ELSE DARK
          catalog == LightSources(lights)
          sorted == SortByLuminosity(catalog)
          alone == {_processIndividualLight(tokens[t], catalog[i], start, gi, FALSE) :
                      i \in DOMAIN catalog}
          upTo(n) == ProcessEach(tokens[t], SubSeq(sorted, 1, n), start, gi, FALSE)
      IN /\ probe.out = _convertLightLevelToText(MaxOf({start} \cup alone))
         /\ \A n \in DOMAIN sorted : upTo(n) >= upTo(n - 1)
         /\ ~gi => /\ TryResolveIn(t, "none", Reverse(lights)).level = upTo(Len(sorted))
                   /\ ProcessEach(tokens[t], Reverse(sorted), start, gi, FALSE)
                        = upTo(Len(sorted))
                   /\ ProcessEach(tokens[t], catalog, start, gi, FALSE)
                        = upTo(Len(sorted))

\* Negative lights are not supported, and a source of negative luminosity
\* standing before the lamp lifts the token out of the dark: the token is
\* within its dim radius only, and out of the lamp's reach.
PositiveOnlyMonotoneSeen ==
  /\ Resolved("t1")
  /\ ~settings.negativeLights
  /\ ~settings.globalIllumination
  /\ lights = <<Shade, Lamp>>
  /\ tokens["t1"].x = 25
  /\ tokens["t2"].light = NoLight
  /\ probe.out = "dim"

\* C36: at most one calculateAllTokensLighting call is in flight, and
\* processingUpdate is set exactly while one is: it is reset when the pass
\* ends and when it throws, so that a later scene-wide trigger starts a new
\* pass.
SceneWideGuard ==
  /\ passes <= 1
  /\ processingUpdate <=> passes = 1

\* A scene-wide pass has thrown, and a later scene-wide trigger has started
\* a new pass, which is in flight.
SceneWideGuardSeen ==
  /\ failures = 1
  /\ processingUpdate
  /\ passes = 1
  /\ \E i \in DOMAIN resolving : resolving[i].pass

\* C37: a scene-wide pass starts a resolution for every valid token on the
\* canvas, a token resolved on its own less than 500 ms before included.
SceneWideCoversAll ==
  [][passes' > passes =>
       \A t \in Tokens :
         (tokens'[t].present /\ isValidToken(tokens', t)) =>
           lastEvent'.calls[t] = "accepted"]_vars

\* The markers of one type on a token's actor.
MarkersOfType(t, effectType) ==
  {i \in DOMAIN effects[t] : effects[t][i] = effectType}

\* The last step was an _addEffect call for this key.
AddCalled(ev, t, effectType) ==
  ev.type = "addEffect" /\ ev.tok = t /\ ev.changes = {effectType}

\* C38: while an _addEffect for an actor and an effect type is in flight, an
\* _addEffect for the same key returns without creating anything, and so
\* does one that finds a marker of that type; no actor ever carries two
\* markers of one type; and an _addEffect whose own key is free and whose
\* marker is absent goes on to create it, whatever other keys are held.
CreationLock ==
  /\ [](\A t \in Tokens, effectType \in {"dark", "dim"} :
         Cardinality(MarkersOfType(t, effectType)) <= 1)
  /\ [][\A t \in Tokens, effectType \in {"dark", "dim"} :
          AddCalled(lastEvent', t, effectType) =>
            /\ effects' = effects
            /\ (<<t, effectType>> \in creatingEffects
                  \/ MarkersOfType(t, effectType) # {}) =>
                 adding' = adding /\ creatingEffects' = creatingEffects
            /\ (settings.addEffects /\ <<t, effectType>> \notin creatingEffects
                  /\ MarkersOfType(t, effectType) = {}) =>
                 adding' = Append(adding, [tok |-> t, type |-> effectType])]_vars

\* A second _addEffect for the dark marker of t1 has returned while the
\* first is still in flight, and an _addEffect for the dark marker of t2 has
\* gone on to create.
CreationLockSeen ==
  /\ triggers = 3
  /\ AddCalled(lastEvent, "t2", "dark")
  /\ adding = <<[tok |-> "t1", type |-> "dark"], [tok |-> "t2", type |-> "dark"]>>
  /\ creatingEffects = {<<"t1", "dark">>, <<"t2", "dark">>}

\* The lock keys of the _addEffect calls in flight.
KeysInFlight == {lockKey(adding[i].tok, adding[i].type) : i \in DOMAIN adding}

\* C39: the lock keys held are those of the _addEffect calls in flight,
\* whether earlier calls found their marker, created it or threw; when no
\* call is in flight no key is held.
LockReleased ==
  /\ creatingEffects = KeysInFlight
  /\ adding = <<>> => creatingEffects = {}

\* The only _addEffect so far, for the dark marker of t1, has thrown: no
\* marker was created and no key is held.
LockReleasedSeen ==
  /\ triggers = 1
  /\ failures = 1
  /\ lastEvent.type = "added" /\ lastEvent.tok = "t1"
  /\ lastEvent.changes = {"dark"}
  /\ effects["t1"] = <<>>
  /\ adding = <<>>
  /\ creatingEffects = {}

\* C40: at most one drain callback is outstanding at any time, however many
\* operations are enqueued before it runs.
OneDrainOutstanding == animationFrames <= 1

====
